---- MODULE Spec2Model ----
(***************************************************************************)
(* A model of ytmusic-stats: the upload endpoint, the Inngest pipeline     *)
(* processMusicHistory / generateUserStats, the song lookup server action  *)
(* (lookupSongs / fetchFromYouTubeAPI), YouTubeService's bulk fetch, the   *)
(* two Takeout parsers, the browser's calculateStats and the               *)
(* SongDurationService.                                                    *)
(*                                                                         *)
(* The specifications share the module, each over its own variables:       *)
(*   Spec          the upload endpoint and the pipeline of one user        *)
(*   SpecLookup    one call of lookupSongs                                 *)
(*   SpecYT        one call of YouTubeService.batchGetVideoMetadataBulk    *)
(*   SpecTitle     applications of cleanTitle to one title                 *)
(*   SpecParser    one call of parseGoogleTakeoutFile                      *)
(*   SpecTakeout   one call of GoogleTakeoutParser.parseHistoryFile        *)
(*   SpecStats     one call of calculateStats, or one run of the step      *)
(*                 calculate-stats over the same plays                     *)
(*   SpecChunks    one call of parseGoogleTakeoutFile or of calculateStats *)
(*                 on inputs of more than a batch                          *)
(*   SpecEstimate  calls of batchEstimateDurations and enrichments         *)
(*   SpecArtist    the artist of one provider item or of one cached song   *)
(*   SpecYield     the passes and the yields of one batch loop             *)
(*   SpecSave      the saves of one user's Statistics                      *)
(***************************************************************************)
EXTENDS Integers, Sequences, FiniteSets, Bags, TLC

(***************************************************************************)
(* Bounds of the model.                                                    *)
(***************************************************************************)
\* Uploads one user makes; history ids are 1..MaxUploads.
MaxUploads == 2
\* Attempts the orchestrator gives one step before the run fails.
MaxAttempts == 2
\* Play events the largest uploaded file parses to (two batches of the pipeline).
MaxEntries == 51

(***************************************************************************)
(* Program constants.                                                      *)
(***************************************************************************)
processingBatchSize == 50

\* No document with that id or filter in a collection.
NoDoc == [absent |-> TRUE]
\* An unset string field.
None == "none"
\* An unset number (a field, or a step output not yet memoized); <<n>> once set.
Unset == <<>>
Some(n) == <<n>>
Value(opt) == opt[1]

HistoryIds == 1..MaxUploads
\* What an uploaded file parses to: the number of parsed play events.
EntryCounts == {0, MaxEntries}

VARIABLES
    \* ---- the database collections (one user) ----
    MusicHistory,        \* history id -> document or NoDoc
    HistoryEntry,        \* bag of <<historyId, index of the parsed event>>
    UserMusicHistories,  \* the history ids associated with the user
    UserStats,           \* the user's Statistics document or NoDoc
    \* ---- the upload endpoint (POST /api/upload) ----
    uploadPc,            \* "idle" | "cleaned" | "created"
    uploads,             \* uploads accepted so far (the last history id created)
    cleanupOk,           \* whether the last cleanupUserData ran without a throw
    \* ---- the runs of processMusicHistory, one per history id ----
    runPc,               \* the step the run is at
    attempt,             \* failed attempts of the current step
    batchI,              \* loop variable i of the batch loop
    parseResult,         \* the memoized output of parse-json-file (entries.length)
    \* ---- the runs of generateUserStats, one per history id ----
    statsJob             \* "none" | "queued" | "done"

pvars == <<MusicHistory, HistoryEntry, UserMusicHistories, UserStats, uploadPc,
           uploads, cleanupOk, runPc, attempt, batchI, parseResult, statsJob>>

VARIABLES
    \* ---- one call of lookupSongs(videoIds) ----
    videoIds,            \* the argument
    origin,              \* the Origin header of the request ("" when there is none)
    session,             \* whether auth.api.getSession finds a signed-in user
    apiKey,              \* whether YOUTUBE_API_KEY is configured
    Song,                \* the cache collection: video id -> document or NoDoc
    lookupPc,            \* where the call is
    cachedMap,           \* video id -> song, from the cache
    idsToFetch,          \* the ids sent to fetchFromYouTubeAPI
    fetchI,              \* loop variable i of the batch loops
    results,             \* fetchFromYouTubeAPI's results map
    videoChannelMap,     \* video id -> channel id
    channelThumbnails,   \* channel id -> image
    upsertI,             \* songs of songsToUpsert handled so far
    lookupResult,        \* the value returned
    \* ---- what the call did, for the claims ----
    cacheReads,          \* Song.find calls
    providerLog,         \* the provider requests, in order
    upsertLog            \* the Song.updateOne calls, in order

lvars == <<videoIds, origin, session, apiKey, Song, lookupPc, cachedMap,
           idsToFetch, fetchI, results, videoChannelMap, channelThumbnails,
           upsertI, lookupResult, cacheReads, providerLog, upsertLog>>

VARIABLES
    \* ---- one call of YouTubeService.batchGetVideoMetadataBulk(videoIds) ----
    ytVideoIds,          \* the argument
    ytApiKey,            \* whether YOUTUBE_API_KEY is configured
    ytPc,                \* "loop" | "returned"
    ytI,                 \* loop variable i
    ytResults,           \* the results map
    ytLog                \* the provider requests and the delays, in order

yvars == <<ytVideoIds, ytApiKey, ytPc, ytI, ytResults, ytLog>>

VARIABLES
    \* ---- applications of cleanTitle to one title ----
    title,               \* the raw title
    cleaned              \* the results of the successive applications

tvars == <<title, cleaned>>

VARIABLES
    \* ---- one call of parseGoogleTakeoutFile(fileContent) ----
    fileContent,         \* the argument: what the text is, and its records
    capability,          \* getDeviceCapability(): "high" | "low"
    parserPc,            \* "called" | "loop" | "returned" | "threw"
    parserI,             \* loop variable i of the batch loop
    parserEntries,       \* the entries array
    parserMusicEntries,  \* the musicEntries counter
    parserResult         \* the value returned

gvars == <<fileContent, capability, parserPc, parserI, parserEntries,
           parserMusicEntries, parserResult>>

VARIABLES
    \* ---- one call of GoogleTakeoutParser.parseHistoryFile(jsonContent) ----
    jsonContent,         \* the argument: what the text is, and its records
    takeoutPc,           \* "called" | "loop" | "returned"
    takeoutI,            \* loop variable i
    takeoutEntries,      \* the entries array
    takeoutErrors,       \* the errors array
    takeoutMusicEntries, \* the musicEntries counter
    takeoutResult        \* the value returned

hvars == <<jsonContent, takeoutPc, takeoutI, takeoutEntries, takeoutErrors,
           takeoutMusicEntries, takeoutResult>>

VARIABLES
    \* ---- one call of calculateStats(entries, onProgress, metadata) ----
    statEntries,         \* the argument entries
    statMetadata,        \* the argument metadata: youtubeId -> song metadata
    statCapability,      \* getDeviceCapability(): "high" | "low"
    statPc,              \* "idle" | "grouping" | "returned", and for the
                         \* server "calculate-stats" | "stats-updated"
    statI,               \* loop variable i of the batch loop
    songMap,             \* the songs met, in the order they were first met
    artistMap,           \* the artists met, in the order they were first met
    totalPlaytime,       \* the running sum of the durations
    decadeCountMap,      \* the decades met, in order, with their play counts
    dailyMap,            \* the days met, in order
    songYearMap,         \* the songs with a release year, in the order met
    clientStats,         \* the value returned
    serverStats          \* what generateUserStats computes from the same plays

avars == <<statEntries, statMetadata, statCapability, statPc, statI, songMap,
           artistMap, totalPlaytime, decadeCountMap, dailyMap, songYearMap,
           clientStats, serverStats>>

VARIABLES
    \* ---- calls of SongDurationService.batchEstimateDurations ----
    songCache,           \* the Song collection by key: key -> document or NoDoc
    estimateCalls,       \* batchEstimateDurations calls made so far
    estimateLog          \* the estimates returned: song, position and triple

evars == <<songCache, estimateCalls, estimateLog>>

VARIABLES
    \* ---- the artist of one provider item or of one cached song ----
    artistPc,            \* "idle" | "item" | "cached", then "item-done" |
                         \* "cached-done"
    itemChannelTitle,    \* snippet.channelTitle, or the document's channelTitle
    itemTitle,           \* snippet.title, or the document's title
    songArtist,          \* the artist field of the cached document
    artistResult         \* the artist the result carries

rvars == <<artistPc, itemChannelTitle, itemTitle, songArtist, artistResult>>

VARIABLES
    \* ---- the batch loop of parseGoogleTakeoutFile or of calculateStats ----
    loopOf,              \* "none" | "parser" | "stats"
    loopLength,          \* data.length, or entries.length
    loopCapability,      \* getDeviceCapability(): "high" | "low"
    loopI,               \* loop variable i
    unyielded,           \* records taken since the last yieldToBrowser
    yields               \* calls of yieldToBrowser so far

kvars == <<loopOf, loopLength, loopCapability, loopI, unyielded, yields>>

VARIABLES
    \* ---- the saves of one user's Statistics ----
    userStatsDocs,       \* the documents of UserStats with the user's id
    saveCount,           \* saves and deletions made so far
    lastSave             \* the last request: what was sent, what was found
                         \* and the response

uvars == <<userStatsDocs, saveCount, lastSave>>

\* The variables of the artist correction, of the Statistics save and of the
\* yields.
nvars == <<rvars, kvars, uvars>>

\* The variables of the browser-side and estimation code, and for each group
\* all the variables outside it.
cvars == <<tvars, gvars, hvars, avars, evars, nvars>>
svars == <<pvars, lvars, yvars, nvars>>
exceptR == <<pvars, lvars, yvars, tvars, gvars, hvars, avars, evars, kvars,
             uvars>>
exceptK == <<pvars, lvars, yvars, tvars, gvars, hvars, avars, evars, rvars,
             uvars>>
exceptU == <<pvars, lvars, yvars, tvars, gvars, hvars, avars, evars, rvars,
             kvars>>
exceptT == <<svars, gvars, hvars, avars, evars>>
exceptG == <<svars, tvars, hvars, avars, evars>>
exceptH == <<svars, tvars, gvars, avars, evars>>
exceptA == <<svars, tvars, gvars, hvars, evars>>
exceptE == <<svars, tvars, gvars, hvars, avars>>

(***************************************************************************)
(* Mongoose helpers.                                                       *)
(***************************************************************************)
\* The fields of `upd` written over those of document `doc`.
Merge(doc, upd) ==
    [k \in DOMAIN doc |-> IF k \in DOMAIN upd THEN upd[k] ELSE doc[k]]

\* Model.findByIdAndUpdate(id, upd): no upsert, so no document means no change.
findByIdAndUpdate(coll, id, upd) ==
    IF coll[id] = NoDoc THEN coll ELSE [coll EXCEPT ![id] = Merge(@, upd)]

\* HistoryEntry.deleteMany({historyId: {$in: ids}})
deleteEntries(bag, ids) ==
    [e \in {x \in DOMAIN bag : x[1] \notin ids} |-> bag[e]]

\* The documents of HistoryEntry with the given historyId, counted.
EntryCount(bag, h) ==
    BagCardinality([e \in {x \in DOMAIN bag : x[1] = h} |-> bag[e]])

\* MusicHistory.create({... status: "pending", fileContent}) with the schema defaults.
NewHistory(n) ==
    [status |-> "pending", processingStage |-> None, progress |-> 0,
     totalEntries |-> Unset, processedEntries |-> 0, errorMessage |-> None,
     fileEntries |-> n]

(***************************************************************************)
(* POST /api/upload                                                        *)
(***************************************************************************)
\* cleanupUserData(userId). The operations run in order inside one try block;
\* failAt = k means the k-th operation throws (0: getUserMusicHistories,
\* 1: HistoryEntry.deleteMany, 2: MusicHistory.deleteMany,
\* 3: clearUserMusicHistories, 4: UserStats.deleteOne), 5 that none does.
\* The catch logs and returns, so the upload goes on either way.
cleanupDone(k, failAt) == UserMusicHistories # {} /\ failAt > k

cleanupUserData(failAt) ==
    /\ HistoryEntry' = IF cleanupDone(1, failAt)
                       THEN deleteEntries(HistoryEntry, UserMusicHistories)
                       ELSE HistoryEntry
    /\ MusicHistory' = IF cleanupDone(2, failAt)
                       THEN [h \in HistoryIds |->
                               IF h \in UserMusicHistories THEN NoDoc
                               ELSE MusicHistory[h]]
                       ELSE MusicHistory
    /\ UserMusicHistories' = IF cleanupDone(3, failAt) THEN {} ELSE UserMusicHistories
    /\ UserStats' = IF cleanupDone(4, failAt) THEN NoDoc ELSE UserStats
    /\ cleanupOk' = (failAt = 5)

\* POST up to `await cleanupUserData(session.user.id)`: the request passed the
\* session and file validation.
UploadCleanup ==
    /\ uploadPc = "idle"
    /\ uploads < MaxUploads
    /\ \E failAt \in 0..5 : cleanupUserData(failAt)
    /\ uploadPc' = "cleaned"
    /\ UNCHANGED <<uploads, runPc, attempt, batchI, parseResult, statsJob>>
    /\ UNCHANGED <<lvars, yvars, cvars>>

\* MusicHistory.create(...) and UserStatsService.addMusicHistory(...)
UploadCreate ==
    /\ uploadPc = "cleaned"
    /\ \E n \in EntryCounts :
         MusicHistory' = [MusicHistory EXCEPT ![uploads + 1] = NewHistory(n)]
    /\ UserMusicHistories' = UserMusicHistories \cup {uploads + 1}
    /\ uploads' = uploads + 1
    /\ uploadPc' = "created"
    /\ UNCHANGED <<HistoryEntry, UserStats, cleanupOk, runPc, attempt, batchI,
                   parseResult, statsJob>>
    /\ UNCHANGED <<lvars, yvars, cvars>>

\* inngest.send({name: "process/music-history", ...}) and the response
UploadSend ==
    /\ uploadPc = "created"
    /\ runPc' = [runPc EXCEPT ![uploads] = "initialize-processing"]
    /\ uploadPc' = "idle"
    /\ UNCHANGED <<MusicHistory, HistoryEntry, UserMusicHistories, UserStats,
                   uploads, cleanupOk, attempt, batchI, parseResult, statsJob>>
    /\ UNCHANGED <<lvars, yvars, cvars>>

(***************************************************************************)
(* processMusicHistory: one action per step.run; a step whose callback     *)
(* throws is run again, and after MaxAttempts failures the run fails. The  *)
(* function registers no failure handler.                                  *)
(***************************************************************************)
\* The current step of run h completed: go on to `next`.
StepDone(h, next) ==
    /\ runPc' = [runPc EXCEPT ![h] = next]
    /\ attempt' = [attempt EXCEPT ![h] = 0]

\* The current step of run h threw.
StepThrew(h) ==
    /\ runPc' = [runPc EXCEPT ![h] =
                    IF attempt[h] + 1 >= MaxAttempts THEN "failed-run" ELSE @]
    /\ attempt' = [attempt EXCEPT ![h] = @ + 1]

\* Step 1: initialize-processing
InitializeProcessing(h) ==
    /\ runPc[h] = "initialize-processing"
    /\ \/ /\ MusicHistory' = findByIdAndUpdate(MusicHistory, h,
                [status |-> "processing", processingStage |-> "parsing",
                 progress |-> 0])
          /\ StepDone(h, "parse-json-file")
       \/ \* connectDB or the update throws
          /\ UNCHANGED MusicHistory
          /\ StepThrew(h)
    /\ UNCHANGED <<HistoryEntry, UserMusicHistories, UserStats, uploadPc, uploads,
                   cleanupOk, batchI, parseResult, statsJob>>
    /\ UNCHANGED <<lvars, yvars, cvars>>

\* The update of the catch block of parse-json-file; it may throw in its turn.
MarkFailed(coll, h, marked, msg) ==
    IF marked
    THEN findByIdAndUpdate(coll, h, [status |-> "failed", errorMessage |-> msg])
    ELSE coll

\* Step 2: parse-json-file
ParseJsonFile(h) ==
    /\ runPc[h] = "parse-json-file"
    /\ \/ \* the file is read, parsed and the counts are stored
          /\ MusicHistory[h] # NoDoc
          /\ MusicHistory' = findByIdAndUpdate(MusicHistory, h,
                [processingStage |-> "extracting",
                 totalEntries |-> Some(MusicHistory[h].fileEntries),
                 processedEntries |-> MusicHistory[h].fileEntries,
                 progress |-> 50])
          /\ parseResult' = [parseResult EXCEPT ![h] = Some(MusicHistory[h].fileEntries)]
          /\ StepDone(h, "check-entries")
       \/ \* findById finds no document: "File content not found in database"
          /\ MusicHistory[h] = NoDoc
          /\ UNCHANGED <<MusicHistory, parseResult>>
          /\ StepThrew(h)
       \/ \* findById or the first update throws
          /\ \E marked \in BOOLEAN :
               MusicHistory' = MarkFailed(MusicHistory, h, marked, "db error")
          /\ UNCHANGED parseResult
          /\ StepThrew(h)
       \/ \* the second update throws, after the first one was applied
          /\ MusicHistory[h] # NoDoc
          /\ \E marked \in BOOLEAN :
               MusicHistory' = MarkFailed(
                   findByIdAndUpdate(MusicHistory, h,
                       [processingStage |-> "extracting", progress |-> 10]),
                   h, marked, "db error")
          /\ UNCHANGED parseResult
          /\ StepThrew(h)
    /\ UNCHANGED <<HistoryEntry, UserMusicHistories, UserStats, uploadPc, uploads,
                   cleanupOk, batchI, statsJob>>
    /\ UNCHANGED <<lvars, yvars, cvars>>

\* if (parseResult.entries.length === 0) { ...status: "failed"...; return }
CheckEntries(h) ==
    /\ runPc[h] = "check-entries"
    /\ \/ /\ Value(parseResult[h]) = 0
          /\ MusicHistory' = findByIdAndUpdate(MusicHistory, h,
                [status |-> "failed",
                 errorMessage |-> "No valid music entries found in the file"])
          /\ runPc' = [runPc EXCEPT ![h] = "returned-no-entries"]
       \/ /\ Value(parseResult[h]) > 0
          /\ UNCHANGED MusicHistory
          /\ runPc' = [runPc EXCEPT ![h] = "process-batch"]
    /\ UNCHANGED <<HistoryEntry, UserMusicHistories, UserStats, uploadPc, uploads,
                   cleanupOk, attempt, batchI, parseResult, statsJob>>
    /\ UNCHANGED <<lvars, yvars, cvars>>

\* Math.ceil(totalEntries / processingBatchSize)
totalBatches(n) == (n + processingBatchSize - 1) \div processingBatchSize

Min(a, b) == IF a < b THEN a ELSE b

\* Math.round(50 + ((i + 1) / totalBatches) * 35)
progressPercent(i, tb) == (2 * (50 * tb + (i + 1) * 35) + tb) \div (2 * tb)

\* HistoryEntry.insertMany(formattedBatch): one new document per parsed event
\* of the batch; the schema sets no unique index.
insertMany(bag, h, startIndex, endIndex) ==
    bag (+) SetToBag({<<h, k>> : k \in (startIndex + 1)..endIndex})

\* Step 3: process-batch-i
ProcessBatch(h) ==
    LET i == batchI[h]
        totalEntries == Value(parseResult[h])
        startIndex == i * processingBatchSize
        endIndex == Min(startIndex + processingBatchSize, totalEntries)
        tb == totalBatches(totalEntries)
    IN
    /\ runPc[h] = "process-batch"
    /\ \/ \* the batch is inserted and the progress stored
          /\ HistoryEntry' = insertMany(HistoryEntry, h, startIndex, endIndex)
          /\ MusicHistory' = findByIdAndUpdate(MusicHistory, h,
                [processedEntries |-> endIndex,
                 progress |-> progressPercent(i, tb)])
          /\ batchI' = [batchI EXCEPT ![h] = IF i + 1 < tb THEN i + 1 ELSE @]
          /\ StepDone(h, IF i + 1 < tb THEN "process-batch"
                         ELSE "generate-user-statistics")
       \/ \* batchEstimateDurations or insertMany throws
          /\ UNCHANGED <<HistoryEntry, MusicHistory, batchI>>
          /\ StepThrew(h)
       \/ \* the progress update throws, after insertMany
          /\ HistoryEntry' = insertMany(HistoryEntry, h, startIndex, endIndex)
          /\ UNCHANGED <<MusicHistory, batchI>>
          /\ StepThrew(h)
    /\ UNCHANGED <<UserMusicHistories, UserStats, uploadPc, uploads, cleanupOk,
                   parseResult, statsJob>>
    /\ UNCHANGED <<lvars, yvars, cvars>>

\* Step 4: generate-user-statistics
GenerateUserStatistics(h) ==
    /\ runPc[h] = "generate-user-statistics"
    /\ \/ \* the progress is stored and "generate/user-stats" is sent
          /\ MusicHistory' = findByIdAndUpdate(MusicHistory, h,
                [processingStage |-> "generating-stats", progress |-> 85])
          /\ statsJob' = [statsJob EXCEPT ![h] = "queued"]
          /\ StepDone(h, "complete-processing")
       \/ \* the update throws
          /\ UNCHANGED <<MusicHistory, statsJob>>
          /\ StepThrew(h)
       \/ \* inngest.send throws, after the update
          /\ MusicHistory' = findByIdAndUpdate(MusicHistory, h,
                [processingStage |-> "generating-stats", progress |-> 85])
          /\ UNCHANGED statsJob
          /\ StepThrew(h)
    /\ UNCHANGED <<HistoryEntry, UserMusicHistories, UserStats, uploadPc, uploads,
                   cleanupOk, batchI, parseResult>>
    /\ UNCHANGED <<lvars, yvars, cvars>>

\* Step 5: complete-processing
CompleteProcessing(h) ==
    /\ runPc[h] = "complete-processing"
    /\ \/ /\ MusicHistory' = findByIdAndUpdate(MusicHistory, h,
                [status |-> "completed", processingStage |-> "completed",
                 progress |-> 100])
          /\ StepDone(h, "schedule-enrichment")
       \/ /\ UNCHANGED MusicHistory
          /\ StepThrew(h)
    /\ UNCHANGED <<HistoryEntry, UserMusicHistories, UserStats, uploadPc, uploads,
                   cleanupOk, batchI, parseResult, statsJob>>
    /\ UNCHANGED <<lvars, yvars, cvars>>

\* Steps 6 and 7: schedule-enrichment and trigger-cleanup catch their own
\* errors and write nothing to the collections modelled here.
ScheduleEnrichment(h) ==
    /\ runPc[h] = "schedule-enrichment"
    /\ StepDone(h, "trigger-cleanup")
    /\ UNCHANGED <<MusicHistory, HistoryEntry, UserMusicHistories, UserStats,
                   uploadPc, uploads, cleanupOk, batchI, parseResult, statsJob>>
    /\ UNCHANGED <<lvars, yvars, cvars>>

TriggerCleanup(h) ==
    /\ runPc[h] = "trigger-cleanup"
    /\ StepDone(h, "returned-success")
    /\ UNCHANGED <<MusicHistory, HistoryEntry, UserMusicHistories, UserStats,
                   uploadPc, uploads, cleanupOk, batchI, parseResult, statsJob>>
    /\ UNCHANGED <<lvars, yvars, cvars>>

(***************************************************************************)
(* generateUserStats: the step calculate-stats.                            *)
(***************************************************************************)
\* The Statistics computed from the entries of history h.
StatsOf(h) == [historyId |-> h, totalListens |-> EntryCount(HistoryEntry, h)]

\* UserStats.findOneAndUpdate({userId}, {...stats}, {upsert: true})
updateUserStats(stats) ==
    UserStats' = IF UserStats = NoDoc THEN stats ELSE stats @@ UserStats

CalculateStats(h) ==
    /\ statsJob[h] = "queued"
    /\ \/ \* if (stats.length > 0): the aggregate matched entries
          /\ EntryCount(HistoryEntry, h) > 0
          /\ updateUserStats(StatsOf(h))
       \/ /\ EntryCount(HistoryEntry, h) = 0
          /\ UNCHANGED UserStats
    /\ statsJob' = [statsJob EXCEPT ![h] = "done"]
    /\ UNCHANGED <<MusicHistory, HistoryEntry, UserMusicHistories, uploadPc,
                   uploads, cleanupOk, runPc, attempt, batchI, parseResult>>
    /\ UNCHANGED <<lvars, yvars, cvars>>

(***************************************************************************)
(* Strings are sequences of one-character strings, so that split,          *)
(* startsWith and the duration pattern act on them as the code does.       *)
(***************************************************************************)
\* s.indexOf(sep), counted from 1; 0 when sep does not occur in s
IndexOf(s, sep) ==
    LET hits == {k \in 1..(Len(s) - Len(sep) + 1) :
                    SubSeq(s, k, k + Len(sep) - 1) = sep}
    IN IF hits = {} THEN 0 ELSE CHOOSE k \in hits : \A j \in hits : k <= j

\* s.split(sep)
RECURSIVE split(_, _)
split(s, sep) ==
    LET k == IndexOf(s, sep)
    IN IF k = 0 THEN <<s>>
       ELSE <<SubSeq(s, 1, k - 1)>> \o split(SubSeq(s, k + Len(sep), Len(s)), sep)

\* s.startsWith(prefix)
startsWith(s, prefix) ==
    Len(prefix) <= Len(s) /\ SubSeq(s, 1, Len(prefix)) = prefix

\* array.slice(from, from + count), `from` counted from 0
slice(seq, from, count) == SubSeq(seq, from + 1, Min(from + count, Len(seq)))

Range(seq) == {seq[k] : k \in 1..Len(seq)}

\* seq.filter(x => x in set), computed by halves
RECURSIVE filter(_, _)
filter(seq, set) ==
    IF Len(seq) = 0 THEN <<>>
    ELSE IF Len(seq) = 1 THEN (IF seq[1] \in set THEN seq ELSE <<>>)
    ELSE filter(SubSeq(seq, 1, Len(seq) \div 2), set)
         \o filter(SubSeq(seq, Len(seq) \div 2 + 1, Len(seq)), set)

\* seq.filter(x => x not in set), computed by halves
RECURSIVE reject(_, _)
reject(seq, set) ==
    IF Len(seq) = 0 THEN <<>>
    ELSE IF Len(seq) = 1 THEN (IF seq[1] \in set THEN <<>> ELSE seq)
    ELSE reject(SubSeq(seq, 1, Len(seq) \div 2), set)
         \o reject(SubSeq(seq, Len(seq) \div 2 + 1, Len(seq)), set)

\* [...new Set(seq)]: the first occurrence of each element, in order
RECURSIVE unique(_)
unique(seq) ==
    IF Len(seq) <= 1 THEN seq
    ELSE LET left == unique(SubSeq(seq, 1, Len(seq) \div 2))
             right == unique(SubSeq(seq, Len(seq) \div 2 + 1, Len(seq)))
         IN left \o reject(right, Range(left))

(***************************************************************************)
(* The origin check of lookupSongs.                                        *)
(***************************************************************************)
\* process.env.BETTER_AUTH_URL, here "h://a.b:3" (scheme h, host a.b, port 3)
BETTER_AUTH_URL == <<"h", ":", "/", "/", "a", ".", "b", ":", "3">>

SchemeSep == <<":", "/", "/">>

\* allowed.split(":")[0] + "://" + allowed.split("://")[1]?.split(":")[0] || ""
\* The || binds last and the sum is never empty, so it changes nothing.
allowedPrefix(allowed) ==
    LET afterScheme == split(allowed, SchemeSep)
        host == IF Len(afterScheme) >= 2
                THEN split(afterScheme[2], <<":">>)[1]
                ELSE <<"undefined">>
    IN split(allowed, <<":">>)[1] \o SchemeSep \o host

\* isValidOrigin: allowedOrigins holds BETTER_AUTH_URL alone; a request
\* without an Origin header (origin = "") counts as valid.
isValidOrigin(o) ==
    IF o # <<>> THEN startsWith(o, allowedPrefix(BETTER_AUTH_URL)) ELSE TRUE

(***************************************************************************)
(* The provider's answers and what fetchFromYouTubeAPI derives from them.  *)
(***************************************************************************)
YOUTUBE_BATCH_SIZE == 50
MAX_VIDEO_IDS == 8000

Digits == <<"0", "1", "2", "3", "4", "5", "6", "7", "8", "9">>
IsDigit(c) == \E d \in 1..10 : Digits[d] = c
DigitValue(c) == (CHOOSE d \in 1..10 : Digits[d] = c) - 1

\* Number.parseInt(digits, 10) of a run of digits
RECURSIVE parseInt(_)
parseInt(digits) ==
    IF digits = <<>> THEN 0
    ELSE 10 * parseInt(SubSeq(digits, 1, Len(digits) - 1))
         + DigitValue(digits[Len(digits)])

\* The length of the run of digits of s that starts at position pos.
RECURSIVE digitRun(_, _)
digitRun(s, pos) ==
    IF pos <= Len(s) /\ IsDigit(s[pos]) THEN 1 + digitRun(s, pos + 1) ELSE 0

\* One optional group (?:(\d+)X)? of the duration pattern tried at pos:
\* <<matched, value, position after it>>.
durationGroup(s, pos, unit) ==
    LET n == digitRun(s, pos)
    IN IF n >= 1 /\ pos + n <= Len(s) /\ s[pos + n] = unit
       THEN <<TRUE, parseInt(SubSeq(s, pos, pos + n - 1)), pos + n + 1>>
       ELSE <<FALSE, 0, pos>>

\* hours * 3600 + minutes * 60 + seconds of the groups matched after "PT" at p
durationAfterPT(s, p) ==
    LET h == durationGroup(s, p + 2, "H")
        m == durationGroup(s, h[3], "M")
        sec == durationGroup(s, m[3], "S")
    IN h[2] * 3600 + m[2] * 60 + sec[2]

\* parseISO8601Duration: /PT(?:(\d+)H)?(?:(\d+)M)?(?:(\d+)S)?/ matches at the
\* first "PT" of the string, whatever follows; without one the default is 210.
parseISO8601Duration(duration) ==
    LET p == IndexOf(duration, <<"P", "T">>)
    IN IF p = 0 THEN 210 ELSE durationAfterPT(duration, p)

\* getBestThumbnail: thumbnails is the set of sizes the provider gives a url
\* for; the url is written as the size's name.
getBestThumbnail(thumbnails) ==
    LET priority == <<"maxres", "high", "medium", "default">>
        found == {k \in 1..4 : priority[k] \in thumbnails}
    IN IF found = {} THEN None
       ELSE priority[CHOOSE k \in found : \A j \in found : k <= j]

\* The request lengths tried: up to MaxBatches provider batches.
MaxBatches == 3
RequestLengths ==
    {0, 1, 2} \cup {(k - 1) * YOUTUBE_BATCH_SIZE : k \in 2..MaxBatches}
              \cup {(k - 1) * YOUTUBE_BATCH_SIZE + 1 : k \in 2..MaxBatches}
Ids(n) == [k \in 1..n |-> k]
VideoIds == 1..((MaxBatches - 1) * YOUTUBE_BATCH_SIZE + 1)

\* The videos of a playlist of 51 videos, each of its own channel; their ids
\* are beyond those of the other requests.
DenseIds ==
    (MAX_VIDEO_IDS + 1001)..(MAX_VIDEO_IDS + 1001 + YOUTUBE_BATCH_SIZE)

\* The videos the provider knows: 1, 2, the first id after each full batch,
\* and the videos of the playlist.
ProviderIds ==
    {1, 2} \cup {(k - 1) * YOUTUBE_BATCH_SIZE + 1 : k \in 2..MaxBatches}
           \cup DenseIds

\* A channel id, and the missing channel id of an item without one.
Channel(n) == <<"U", "C", n>>
NoChannel == <<>>

\* The item the provider returns for a video it knows (contentDetails.duration,
\* snippet.channelId, snippet.thumbnails; "" and {} stand for a missing field).
ProviderItem(id) ==
    CASE id = 1 ->
           [id |-> id, duration |-> <<"P", "T", "3", "M", "3", "0", "S">>,
            channelId |-> Channel(1), thumbnails |-> {"high", "default"}]
      [] id = 2 ->
           [id |-> id, duration |-> <<>>,
            channelId |-> Channel(1), thumbnails |-> {}]
      [] id = YOUTUBE_BATCH_SIZE + 1 ->
           [id |-> id, duration |-> <<"P", "T", "0", "S">>,
            channelId |-> Channel(2), thumbnails |-> {"medium"}]
      [] id \in DenseIds ->
           [id |-> id, duration |-> <<"P", "T", "3", "M", "3", "0", "S">>,
            channelId |-> Channel(id), thumbnails |-> {"default"}]
      [] OTHER ->
           [id |-> id, duration |-> <<"P", "0", "D">>,
            channelId |-> NoChannel, thumbnails |-> {"maxres", "high"}]

\* data.items of a successful videos request for batchIds
ProviderItems(batchIds) ==
    [k \in 1..Len(filter(batchIds, ProviderIds)) |->
        ProviderItem(filter(batchIds, ProviderIds)[k])]

\* The channels whose snippet carries a thumbnail.
ChannelImage(channelId) ==
    IF channelId \in {Channel(1), Channel(MAX_VIDEO_IDS + 1001)}
    THEN {"default"} ELSE {}

\* The song fetchFromYouTubeAPI stores for one item (lines 91-129).
songOfItem(item) ==
    [youtubeId |-> item.id,
     duration |-> parseISO8601Duration(
                      IF item.duration # <<>> THEN item.duration
                      ELSE <<"P", "T", "0", "S">>),
     thumbnail |-> getBestThumbnail(item.thumbnails),
     artistImage |-> None]

\* results after the items of one successful response were stored
RECURSIVE setItems(_, _)
setItems(map, items) ==
    IF items = <<>> THEN map
    ELSE setItems((Head(items).id :> songOfItem(Head(items))) @@ map, Tail(items))

\* videoChannelMap after the items of one successful response
RECURSIVE setChannels(_, _)
setChannels(map, items) ==
    IF items = <<>> THEN map
    ELSE setChannels(
           IF Head(items).channelId # NoChannel
           THEN (Head(items).id :> Head(items).channelId) @@ map ELSE map,
           Tail(items))

\* Array.from(channelIds): the distinct channel ids in the order they were met
channelIdsArray(order, map) ==
    unique([k \in 1..Len(filter(order, DOMAIN map)) |->
                map[filter(order, DOMAIN map)[k]]])

(***************************************************************************)
(* lookupSongs(videoIds)                                                   *)
(***************************************************************************)
Returned(value) ==
    /\ lookupResult' = value
    /\ lookupPc' = "returned"

\* A cached document as lookupSongs copies it into cachedMap (lines 248-258).
cachedSong(doc) ==
    [youtubeId |-> doc.youtubeId, duration |-> doc.duration,
     thumbnail |-> doc.thumbnail, artistImage |-> doc.artistImage]

limitedIds == slice(videoIds, 0, MAX_VIDEO_IDS)

\* Step 2: the ids not in the cache, then those cached without a thumbnail
missingIds(map) == reject(limitedIds, DOMAIN map)
\* A variant that never refreshes an entry cached without a thumbnail.
idsNeedingThumbnailsNone(map) == <<>>
idsNeedingThumbnails(map) ==
    filter(limitedIds, {id \in DOMAIN map : map[id].thumbnail = None})

\* Lines 187-281: the checks, the cache read and the choice of the ids to fetch.
LookupStart ==
    /\ lookupPc = "called"
    /\ \/ /\ origin # <<>> /\ ~isValidOrigin(origin)
          /\ Returned([success |-> FALSE, error |-> "Forbidden"])
          /\ UNCHANGED <<cachedMap, idsToFetch, cacheReads>>
       \/ /\ ~(origin # <<>> /\ ~isValidOrigin(origin))
          /\ ~session
          /\ Returned([success |-> FALSE, error |-> "Unauthorized"])
          /\ UNCHANGED <<cachedMap, idsToFetch, cacheReads>>
       \/ /\ ~(origin # <<>> /\ ~isValidOrigin(origin))
          /\ session
          /\ Len(videoIds) = 0
          /\ Returned([success |-> FALSE, error |-> "Invalid video IDs"])
          /\ UNCHANGED <<cachedMap, idsToFetch, cacheReads>>
       \/ /\ ~(origin # <<>> /\ ~isValidOrigin(origin))
          /\ session
          /\ Len(videoIds) > 0
          /\ cacheReads' = cacheReads + 1
          /\ LET map == [id \in {x \in Range(limitedIds) \cap DOMAIN Song :
                                     Song[x] # NoDoc} |->
                            cachedSong(Song[id])]
                 ids == unique(missingIds(map) \o idsNeedingThumbnails(map))
             IN /\ cachedMap' = map
                /\ idsToFetch' = ids
                /\ lookupPc' = IF Len(ids) > 0 /\ apiKey THEN "fetch-videos"
                               ELSE "merge"
          /\ UNCHANGED lookupResult
    /\ UNCHANGED <<videoIds, origin, session, apiKey, Song, fetchI, results,
                   videoChannelMap, channelThumbnails, upsertI, providerLog,
                   upsertLog>>
    /\ UNCHANGED <<pvars, yvars, cvars>>

\* The loop variable after one pass of the videos loop, whatever the response.
nextVideoBatchStops(i, outcome) ==
    IF outcome = "200" THEN i + YOUTUBE_BATCH_SIZE ELSE Len(idsToFetch)

nextVideoBatch(i, outcome) == i + YOUTUBE_BATCH_SIZE

\* Where the call goes when fetchFromYouTubeAPI has returned `fetched`.
afterFetch(fetched) == IF DOMAIN fetched # {} THEN "upsert" ELSE "merge"

\* The failures of the provider and of the cache are tried in the requests
\* of the ids 1, 2, ...; the request of more than MAX_VIDEO_IDS ids and the
\* playlist are answered throughout.
FailuresTried == Range(videoIds) \subseteq VideoIds

\* One pass of the videos loop of fetchFromYouTubeAPI (lines 73-134).
FetchVideosBatch ==
    /\ lookupPc = "fetch-videos"
    /\ \E outcome \in IF FailuresTried THEN {"200", "403", "500", "throw"}
                      ELSE {"200"} :
         LET batchIds == slice(idsToFetch, fetchI, YOUTUBE_BATCH_SIZE)
             items == IF outcome = "200" THEN ProviderItems(batchIds) ELSE <<>>
             newResults == setItems(results, items)
             newChannels == setChannels(videoChannelMap, items)
             i == nextVideoBatch(fetchI, outcome)
         IN /\ providerLog' = Append(providerLog,
                  [kind |-> "videos", ids |-> batchIds, outcome |-> outcome])
            /\ results' = newResults
            /\ videoChannelMap' = newChannels
            /\ IF i < Len(idsToFetch)
               THEN /\ fetchI' = i
                    /\ lookupPc' = "fetch-videos"
               ELSE /\ fetchI' = 0
                    /\ lookupPc' = IF DOMAIN newChannels # {} THEN "fetch-channels"
                                   ELSE afterFetch(newResults)
    /\ UNCHANGED <<videoIds, origin, session, apiKey, Song, cachedMap, idsToFetch,
                   channelThumbnails, upsertI, lookupResult, cacheReads, upsertLog>>
    /\ UNCHANGED <<pvars, yvars, cvars>>

\* results with the channel images attached (lines 164-170)
attachImages(map, channels, images) ==
    [id \in DOMAIN map |->
        IF id \in DOMAIN channels /\ channels[id] \in DOMAIN images
        THEN [map[id] EXCEPT !.artistImage = images[channels[id]]]
        ELSE map[id]]

\* One pass of the channels loop (lines 142-161); a throw leaves the whole
\* block through its catch, without attaching any image.
FetchChannelsBatch ==
    /\ lookupPc = "fetch-channels"
    /\ \E outcome \in IF FailuresTried THEN {"200", "403", "throw"}
                      ELSE {"200"} :
         LET all == channelIdsArray(idsToFetch, videoChannelMap)
             batchChannelIds == slice(all, fetchI, YOUTUBE_BATCH_SIZE)
             withImage == {c \in Range(batchChannelIds) :
                              outcome = "200" /\ ChannelImage(c) # {}}
             images == [c \in DOMAIN channelThumbnails \cup withImage |->
                          IF c \in withImage
                          THEN getBestThumbnail(ChannelImage(c))
                          ELSE channelThumbnails[c]]
             i == fetchI + YOUTUBE_BATCH_SIZE
         IN /\ providerLog' = Append(providerLog,
                  [kind |-> "channels", ids |-> batchChannelIds,
                   outcome |-> outcome])
            /\ channelThumbnails' = images
            /\ IF outcome # "throw" /\ i < Len(all)
               THEN /\ fetchI' = i
                    /\ UNCHANGED <<results, lookupPc>>
               ELSE /\ fetchI' = 0
                    /\ results' = IF outcome = "throw" THEN results
                                  ELSE attachImages(results, videoChannelMap, images)
                    /\ lookupPc' = afterFetch(results)
    /\ UNCHANGED <<videoIds, origin, session, apiKey, Song, cachedMap, idsToFetch,
                   videoChannelMap, upsertI, lookupResult, cacheReads, upsertLog>>
    /\ UNCHANGED <<pvars, yvars, cvars>>

\* Array.from(newSongs.values()): the fetched songs in the order they were stored
songsToUpsert == filter(idsToFetch, DOMAIN results)

\* Song.updateOne({youtubeId}, {$set: {...}}, {upsert: true}) (lines 289-305)
updateOne(coll, song) ==
    (song.youtubeId :>
        [youtubeId |-> song.youtubeId, duration |-> song.duration,
         thumbnail |-> song.thumbnail, artistImage |-> song.artistImage])
      @@ coll

\* One pass of the upsert loop (lines 287-309): a throw is swallowed.
UpsertSong ==
    /\ lookupPc = "upsert"
    /\ \E ok \in IF FailuresTried THEN BOOLEAN ELSE {TRUE} :
         LET song == results[songsToUpsert[upsertI + 1]]
         IN /\ upsertLog' = Append(upsertLog, [song |-> song, ok |-> ok])
            /\ Song' = IF ok THEN updateOne(Song, song) ELSE Song
    /\ upsertI' = upsertI + 1
    /\ lookupPc' = IF upsertI + 1 < Len(songsToUpsert) THEN "upsert" ELSE "merge"
    /\ UNCHANGED <<videoIds, origin, session, apiKey, cachedMap, idsToFetch,
                   fetchI, results, videoChannelMap, channelThumbnails,
                   lookupResult, cacheReads, providerLog>>
    /\ UNCHANGED <<pvars, yvars, cvars>>

\* The stats of the result (lines 328-333); newSongs is results here.
lookupStats ==
    [requested |-> Len(limitedIds),
     cached |-> Cardinality(DOMAIN cachedMap),
     fetched |-> Cardinality(DOMAIN results),
     notFound |-> Len(limitedIds) - Cardinality(DOMAIN cachedMap)
                    - Cardinality(DOMAIN results)]

\* Step 5: merge cached + new songs, the new ones written last (lines 314-334).
LookupReturn ==
    /\ lookupPc = "merge"
    /\ Returned([success |-> TRUE, data |-> results @@ cachedMap,
                 stats |-> lookupStats])
    /\ UNCHANGED <<videoIds, origin, session, apiKey, Song, cachedMap, idsToFetch,
                   fetchI, results, videoChannelMap, channelThumbnails, upsertI,
                   cacheReads, providerLog, upsertLog>>
    /\ UNCHANGED <<pvars, yvars, cvars>>

(***************************************************************************)
(* YouTubeService.batchGetVideoMetadataBulk(videoIds)                      *)
(***************************************************************************)
batchSize == 50

\* YouTubeService.parseDuration: 0 unless the token starts with "PT".
parseDuration(duration) ==
    IF duration = <<>> \/ ~startsWith(duration, <<"P", "T">>) THEN 0
    ELSE durationAfterPT(duration, 1)

\* results after the videos of one response: only those with duration > 0
RECURSIVE setVideos(_, _)
setVideos(map, items) ==
    IF items = <<>> THEN map
    ELSE setVideos(
           IF parseDuration(Head(items).duration) > 0
           THEN (Head(items).id :>
                    [duration |-> parseDuration(Head(items).duration)]) @@ map
           ELSE map,
           Tail(items))

\* Lines 416-427: without an API key, or without ids, the call returns at once.
YTStart ==
    /\ ytPc = "called"
    /\ ytPc' = IF ytApiKey /\ Len(ytVideoIds) > 0 THEN "loop" ELSE "returned"
    /\ UNCHANGED <<ytVideoIds, ytApiKey, ytI, ytResults, ytLog>>
    /\ UNCHANGED <<pvars, lvars, cvars>>

\* Whether the pass that got `outcome` ends the loop (line 441: break).
stopsOn(outcome) == outcome = "403"

\* Whether the pass that got `outcome` waits before the next one (lines 471-474).
delaysAfter(outcome, more) == outcome = "200" /\ more

\* One pass of the loop (lines 427-479).
YTBatch ==
    /\ ytPc = "loop"
    /\ \E outcome \in {"200", "403", "500", "throw"} :
         LET batch == slice(ytVideoIds, ytI, batchSize)
             more == ytI + batchSize < Len(ytVideoIds)
         IN /\ ytLog' = ytLog
                  \o <<[kind |-> "request", ids |-> batch, outcome |-> outcome]>>
                  \o (IF delaysAfter(outcome, more)
                      THEN <<[kind |-> "delay"]>> ELSE <<>>)
            /\ ytResults' = IF outcome = "200"
                            THEN setVideos(ytResults, ProviderItems(batch))
                            ELSE ytResults
            /\ IF stopsOn(outcome)
               THEN /\ ytPc' = "returned"
                    /\ UNCHANGED ytI
               ELSE /\ ytI' = ytI + batchSize
                    /\ ytPc' = IF more THEN "loop" ELSE "returned"
    /\ UNCHANGED <<ytVideoIds, ytApiKey>>
    /\ UNCHANGED <<pvars, lvars, cvars>>

(***************************************************************************)
(* cleanTitle (src/lib/client/parser.ts; GoogleTakeoutParser.cleanTitle    *)
(* is the same chain).  A title is a sequence of the lexemes the patterns  *)
(* tell apart:                                                             *)
(*   " "        one whitespace character                                   *)
(*   "watched"  the word "watched", in any case                            *)
(*   "x"        any other word                                             *)
(*   "(ov)" "[ov]" "-ov"   (official video|audio|music video), the same in *)
(*              brackets, and "- official video" after a dash              *)
(*   "(ly)" "[ly]"         (lyrics|lyric video|with lyrics)                *)
(*   "[hd]" "(hd)"         [hd|hq|4k] and (hd|hq|4k)                       *)
(*   "(yr)"     four digits in parentheses                                 *)
(***************************************************************************)
\* The longest title tried, in lexemes.
MaxTitleLen == 4

Lexemes ==
    {" ", "watched", "x", "(ov)", "[ov]", "-ov", "(ly)", "[ly]", "[hd]",
     "(hd)", "(yr)"}

\* String.prototype.trimEnd / trimStart / trim
RECURSIVE trimEnd(_)
trimEnd(s) ==
    IF s # <<>> /\ s[Len(s)] = " " THEN trimEnd(SubSeq(s, 1, Len(s) - 1)) ELSE s

RECURSIVE trimStart(_)
trimStart(s) == IF s # <<>> /\ Head(s) = " " THEN trimStart(Tail(s)) ELSE s

trim(s) == trimEnd(trimStart(s))

\* .replace(/^watched\s+/i, "")
stripWatched(s) ==
    IF Len(s) >= 2 /\ s[1] = "watched" /\ s[2] = " "
    THEN trimStart(Tail(s)) ELSE s

\* .replace(/\s*<annotation>$/i, ""): the annotation at the very end goes,
\* with the whitespace before it.
stripTrailing(s, annotation) ==
    IF s # <<>> /\ s[Len(s)] = annotation
    THEN trimEnd(SubSeq(s, 1, Len(s) - 1)) ELSE s

\* .replace(/\s+/g, " ")
RECURSIVE collapseWhitespace(_)
collapseWhitespace(s) ==
    IF Len(s) <= 1 THEN s
    ELSE IF s[1] = " " /\ s[2] = " " THEN collapseWhitespace(Tail(s))
    ELSE <<Head(s)>> \o collapseWhitespace(Tail(s))

\* The trailing annotations in the order the chain tries them, each once.
annotationChain ==
    <<"(ov)", "[ov]", "-ov", "(ly)", "[ly]", "[hd]", "(hd)", "(yr)">>

RECURSIVE stripChain(_, _)
stripChain(s, chain) ==
    IF chain = <<>> THEN s
    ELSE stripChain(stripTrailing(s, Head(chain)), Tail(chain))

cleanTitle(t) ==
    trim(collapseWhitespace(stripChain(stripWatched(trim(t)), annotationChain)))

\* One more application of cleanTitle: to the raw title, then to each result.
CleanTitle ==
    /\ Len(cleaned) < 2
    /\ cleaned' = Append(cleaned,
                     cleanTitle(IF cleaned = <<>> THEN title
                                ELSE cleaned[Len(cleaned)]))
    /\ UNCHANGED title
    /\ UNCHANGED exceptT

(***************************************************************************)
(* parseGoogleTakeoutFile (src/lib/client/parser.ts).  A string is the     *)
(* sequence of its characters.  A record of the payload is a JSON value:   *)
(* null, a scalar, or an object with the fields title (a string, or a      *)
(* number: titleType), time and header ("" for a missing field).           *)
(***************************************************************************)
UpperCase ==
    <<"A", "B", "C", "D", "E", "F", "G", "H", "I", "J", "K", "L", "M",
      "N", "O", "P", "Q", "R", "S", "T", "U", "V", "W", "X", "Y", "Z">>
LowerCase ==
    <<"a", "b", "c", "d", "e", "f", "g", "h", "i", "j", "k", "l", "m",
      "n", "o", "p", "q", "r", "s", "t", "u", "v", "w", "x", "y", "z">>

\* String.prototype.toLowerCase
toLowerCase(s) ==
    [k \in 1..Len(s) |->
        IF \E u \in 1..26 : UpperCase[u] = s[k]
        THEN LowerCase[CHOOSE u \in 1..26 : UpperCase[u] = s[k]]
        ELSE s[k]]

\* String.prototype.includes
includes(s, pattern) == IndexOf(s, pattern) # 0

\* isYouTubeMusicEntry.excludePatterns
excludePatterns ==
    <<<<"w", "a", "t", "c", "h", "e", "d", " ", "a", " ", "v", "i", "d", "e",
        "o", " ", "t", "h", "a", "t", " ", "h", "a", "s", " ", "b", "e", "e",
        "n", " ", "r", "e", "m", "o", "v", "e", "d">>,
      <<"w", "a", "t", "c", "h", "e", "d", " ", "a", " ", "p", "r", "i", "v",
        "a", "t", "e", " ", "v", "i", "d", "e", "o">>,
      <<"w", "a", "t", "c", "h", "e", "d", " ", "a", " ", "v", "i", "d", "e", "o">>,
      <<"v", "i", "s", "i", "t", "e", "d", " ", "y", "o", "u", "t", "u", "b",
        "e", ".", "c", "o", "m">>,
      <<"s", "e", "a", "r", "c", "h", "e", "d", " ", "f", "o", "r">>>>

\* The header of a YouTube Music record.
YouTubeMusic == "YouTube Music"

\* isYouTubeMusicEntry(entry): "true", "false", or "throw" for the TypeError
\* of reading a property of null or calling toLowerCase on a number.
isYouTubeMusicEntry(entry) ==
    IF entry.json = "null" THEN "throw"
    ELSE IF entry.json # "object" THEN "false"
    ELSE IF (entry.titleType = "string" /\ entry.title = <<>>) \/ entry.time = ""
    THEN "false"
    ELSE IF entry.header # YouTubeMusic THEN "false"
    ELSE IF entry.titleType # "string" THEN "throw"
    ELSE IF \E k \in 1..Len(excludePatterns) :
                includes(toLowerCase(entry.title), excludePatterns[k])
    THEN "false"
    ELSE IF Len(entry.title) < 3 \/ Len(entry.title) > 200 THEN "false"
    ELSE "true"

\* new Date(time).getTime(): milliseconds, NaN for a text that is no date.
NaN == -1
getTime(time) ==
    CASE time = "t1" -> 1000
      [] time = "t2" -> 2000
      [] OTHER -> NaN

\* parseSongEntry(entry): <<the event>> or <<>> for null.  The event keeps the
\* raw title and the instant; `record` is the position of the record in the
\* payload, kept for the properties.
parseSongEntry(entry, j) ==
    IF entry.title = <<>> THEN <<>>
    ELSE IF getTime(entry.time) = NaN THEN <<>>
    ELSE <<[originalTitle |-> entry.title, playedAt |-> getTime(entry.time),
            record |-> j]>>

\* getBatchSize(capability)
getBatchSize(cap) == IF cap = "high" THEN 2000 ELSE 500

\* The inner loop over data[lo] .. data[hi - 1] (positions from 0): the events
\* pushed, the increase of musicEntries and whether a record threw (the loop
\* ends there).  Computed by halves.
RECURSIVE parseRange(_, _, _)
parseRange(data, lo, hi) ==
    IF hi <= lo THEN [entries |-> <<>>, musicEntries |-> 0, threw |-> FALSE]
    ELSE IF hi = lo + 1
    THEN LET music == isYouTubeMusicEntry(data[lo + 1])
         IN [entries |-> IF music = "true" THEN parseSongEntry(data[lo + 1], lo + 1)
                         ELSE <<>>,
             musicEntries |-> IF music = "true" THEN 1 ELSE 0,
             threw |-> music = "throw"]
    ELSE LET mid == (lo + hi) \div 2
             left == parseRange(data, lo, mid)
             right == parseRange(data, mid, hi)
         IN IF left.threw THEN left
            ELSE [entries |-> left.entries \o right.entries,
                  musicEntries |-> left.musicEntries + right.musicEntries,
                  threw |-> right.threw]

\* Lines 328-356: JSON.parse and the Array.isArray check.
ParserStart ==
    /\ parserPc = "called"
    /\ \/ /\ fileContent.kind = "invalid-json"
          /\ parserPc' = "threw"
          /\ UNCHANGED parserResult
       \/ /\ fileContent.kind = "not-array"
          /\ parserPc' = "returned"
          /\ parserResult' = [entries |-> <<>>, totalEntries |-> 0,
                              musicEntries |-> 0,
                              error |-> "Invalid format: Expected an array of entries."]
       \/ /\ fileContent.kind = "array"
          /\ parserPc' = IF Len(fileContent.data) > 0 THEN "loop" ELSE "complete"
          /\ UNCHANGED parserResult
    /\ UNCHANGED <<fileContent, capability, parserI, parserEntries,
                   parserMusicEntries>>
    /\ UNCHANGED exceptG

\* The loop variable of the batch loop after one batch.
nextBatchSkips(i, size) == i + size + 1

nextBatch(i, size) == i + size

\* One pass of the batch loop (lines 359-392).
ParserBatch ==
    /\ parserPc = "loop"
    /\ LET data == fileContent.data
           size == getBatchSize(capability)
           batchEnd == Min(parserI + size, Len(data))
           batch == parseRange(data, parserI, batchEnd)
       IN /\ parserEntries' = parserEntries \o batch.entries
          /\ parserMusicEntries' = parserMusicEntries + batch.musicEntries
          /\ IF batch.threw
             THEN /\ parserPc' = "threw"
                  /\ UNCHANGED parserI
             ELSE /\ parserI' = nextBatch(parserI, size)
                  /\ parserPc' = IF nextBatch(parserI, size) < Len(data)
                                 THEN "loop" ELSE "complete"
    /\ UNCHANGED <<fileContent, capability, parserResult>>
    /\ UNCHANGED exceptG

\* Lines 394-409.
ParserReturn ==
    /\ parserPc = "complete"
    /\ parserPc' = "returned"
    /\ parserResult' = [entries |-> parserEntries,
                        totalEntries |-> Len(fileContent.data),
                        musicEntries |-> parserMusicEntries,
                        error |-> None]
    /\ UNCHANGED <<fileContent, capability, parserI, parserEntries,
                   parserMusicEntries>>
    /\ UNCHANGED exceptG

(***************************************************************************)
(* GoogleTakeoutParser.parseHistoryFile (processing-status.tsx).  Its      *)
(* isYouTubeMusicEntry and parseSongEntry are those of parser.ts.          *)
(***************************************************************************)
MAX_ERRORS == 100

\* Lines 505-515 and 551-560: JSON.parse and the Array.isArray check, both
\* inside the outer try.
TakeoutStart ==
    /\ takeoutPc = "called"
    /\ IF jsonContent.kind # "array"
       THEN /\ takeoutPc' = "returned"
            /\ takeoutResult' = [entries |-> <<>>, totalEntries |-> 0,
                                 musicEntries |-> 0,
                                 errors |-> <<[kind |-> "Failed to parse JSON"]>>]
       ELSE /\ takeoutPc' = IF Len(jsonContent.data) > 0 THEN "loop" ELSE "complete"
            /\ UNCHANGED takeoutResult
    /\ UNCHANGED <<jsonContent, takeoutI, takeoutEntries, takeoutErrors,
                   takeoutMusicEntries>>
    /\ UNCHANGED exceptH

\* errors after the catch of one record (lines 532-541): the record's
\* message, then the terminal note when more than MAX_ERRORS are held.
errorsAfter(errors, i) ==
    LET pushed == Append(errors, [kind |-> "Error processing entry", entry |-> i])
    IN IF Len(pushed) > MAX_ERRORS
       THEN Append(pushed, [kind |-> "Too many errors encountered, stopping parse"])
       ELSE pushed

\* Whether the catch of a record ends the loop (line 538).
stopsParse(errors) == Len(errors) + 1 > MAX_ERRORS

\* One pass of the loop (lines 517-543); takeoutI counts the records gone
\* through, the one that ends the loop included.
TakeoutRecord ==
    /\ takeoutPc = "loop"
    /\ LET entry == jsonContent.data[takeoutI + 1]
           music == isYouTubeMusicEntry(entry)
           more == takeoutI + 1 < Len(jsonContent.data)
       IN /\ takeoutI' = takeoutI + 1
          /\ takeoutMusicEntries' =
                takeoutMusicEntries + (IF music = "true" THEN 1 ELSE 0)
          /\ takeoutEntries' =
                IF music = "true"
                THEN takeoutEntries \o parseSongEntry(entry, takeoutI + 1)
                ELSE takeoutEntries
          /\ takeoutErrors' =
                IF music = "throw" THEN errorsAfter(takeoutErrors, takeoutI)
                ELSE takeoutErrors
          /\ takeoutPc' =
                IF music = "throw" /\ stopsParse(takeoutErrors) THEN "complete"
                ELSE IF more THEN "loop" ELSE "complete"
    /\ UNCHANGED <<jsonContent, takeoutResult>>
    /\ UNCHANGED exceptH

\* Lines 545-550.
TakeoutReturn ==
    /\ takeoutPc = "complete"
    /\ takeoutPc' = "returned"
    /\ takeoutResult' = [entries |-> takeoutEntries,
                         totalEntries |-> Len(jsonContent.data),
                         musicEntries |-> takeoutMusicEntries,
                         errors |-> takeoutErrors]
    /\ UNCHANGED <<jsonContent, takeoutI, takeoutEntries, takeoutErrors,
                   takeoutMusicEntries>>
    /\ UNCHANGED exceptH

(***************************************************************************)
(* calculateStats (src/lib/client/stats-calculator.ts)                     *)
(***************************************************************************)
\* const totalListens = entries.length (line 518)
totalListens(entries) == Len(entries)

DEFAULT_SONG_DURATION == 210

\* new Date().getFullYear() when the module is loaded
CURRENT_YEAR == 2026

\* The metadata of a play: metadata.get(entry.youtubeId), or a document
\* without fields when there is no map, no id or no such key.
NoMeta == [duration |-> 0, artist |-> <<>>, releaseYear |-> 0]
songMetaOf(metadata, entry) ==
    IF entry.youtubeId \in DOMAIN metadata THEN metadata[entry.youtubeId]
    ELSE NoMeta

\* The first year a pattern of extractYearFromTitle matches in title, or 0:
\* the four digits from position p, for the least p the pattern admits.
IsYearAt(s, p) ==
    /\ p >= 1
    /\ p + 3 <= Len(s)
    /\ \A k \in p..(p + 3) : IsDigit(s[k])

IsWordChar(c) ==
    \/ IsDigit(c)
    \/ c = "_"
    \/ \E u \in 1..26 : UpperCase[u] = c \/ LowerCase[u] = c

IsSpace(c) == c = " "

\* /\((\d{4})\)/ and /\[(\d{4})\]/
enclosedYearAt(s, p, open, close) ==
    /\ IsYearAt(s, p)
    /\ p > 1 /\ s[p - 1] = open
    /\ p + 4 <= Len(s) /\ s[p + 4] = close

\* /[-]\s*(\d{4})(?:\s|$)/
dashYearAt(s, p) ==
    /\ IsYearAt(s, p)
    /\ \E d \in 1..(p - 1) :
         /\ s[d] = "-"
         /\ \A k \in (d + 1)..(p - 1) : IsSpace(s[k])
    /\ (p + 4 > Len(s) \/ IsSpace(s[p + 4]))

\* /\b(19[5-9]\d|20[0-2]\d)\b/
standaloneYearAt(s, p) ==
    /\ IsYearAt(s, p)
    /\ \/ s[p] = "1" /\ s[p + 1] = "9" /\ DigitValue(s[p + 2]) >= 5
       \/ s[p] = "2" /\ s[p + 1] = "0" /\ DigitValue(s[p + 2]) <= 2
    /\ (p = 1 \/ ~IsWordChar(s[p - 1]))
    /\ (p + 4 > Len(s) \/ ~IsWordChar(s[p + 4]))

yearPatternAt(s, p, pattern) ==
    CASE pattern = 1 -> enclosedYearAt(s, p, "(", ")")
      [] pattern = 2 -> enclosedYearAt(s, p, "[", "]")
      [] pattern = 3 -> dashYearAt(s, p)
      [] pattern = 4 -> standaloneYearAt(s, p)

\* title.match(pattern): the year of the first match, 0 without a match.
matchYear(s, pattern) ==
    LET at == {p \in 1..Len(s) : yearPatternAt(s, p, pattern)}
    IN IF at = {} THEN 0
       ELSE parseInt(SubSeq(s, CHOOSE p \in at : \A q \in at : p <= q,
                            (CHOOSE p \in at : \A q \in at : p <= q) + 3))

validYear(year) == year >= 1950 /\ year <= CURRENT_YEAR + 1

\* extractYearFromTitle (lines 30-53); 0 stands for null.
extractYearFromTitle(s) ==
    LET valid == {pattern \in 1..4 : validYear(matchYear(s, pattern))}
    IN IF valid = {} THEN 0
       ELSE matchYear(s, CHOOSE pattern \in valid : \A q \in valid : pattern <= q)

\* getReleaseYear (lines 58-77); releaseYear is getFullYear() of releaseDate.
getReleaseYear(entry, metadata) ==
    LET songMeta == songMetaOf(metadata, entry)
    IN IF songMeta.releaseYear # 0 /\ validYear(songMeta.releaseYear)
       THEN songMeta.releaseYear
       ELSE extractYearFromTitle(IF entry.originalTitle # <<>>
                                 THEN entry.originalTitle ELSE entry.title)

\* getDecadeFromYear (lines 105-108): Math.floor(year / 10) * 10
getDecadeFromYear(year) == (year \div 10) * 10

\* A key that keeps the case of the artist and the title.
statsSongKeyKeepsCase(artist, songTitle) ==
    trim(artist) \o <<" ", "-", " ">> \o trim(songTitle)

\* createSongKey (lines 113-115)
statsSongKey(artist, songTitle) ==
    toLowerCase(trim(artist)) \o <<" ", "-", " ">> \o toLowerCase(trim(songTitle))

\* estimateDuration (lines 127-162)
estimateDuration(songTitle) ==
    LET lowerTitle == toLowerCase(songTitle)
    IN IF includes(lowerTitle, <<"e", "x", "t", "e", "n", "d", "e", "d">>)
          \/ includes(lowerTitle, <<"f", "u", "l", "l", " ", "v", "e", "r", "s", "i", "o", "n">>)
       THEN 360
       ELSE IF includes(lowerTitle, <<"r", "e", "m", "i", "x">>) THEN 240
       ELSE IF includes(lowerTitle, <<"l", "i", "v", "e">>) THEN 300
       ELSE IF includes(lowerTitle, <<"a", "c", "o", "u", "s", "t", "i", "c">>) THEN 240
       ELSE IF includes(lowerTitle, <<"r", "a", "d", "i", "o", " ", "e", "d", "i", "t">>)
               \/ includes(lowerTitle, <<"s", "h", "o", "r", "t">>)
       THEN 180
       ELSE IF includes(lowerTitle, <<"i", "n", "t", "r", "o">>)
               \/ includes(lowerTitle, <<"o", "u", "t", "r", "o">>)
       THEN 90
       ELSE DEFAULT_SONG_DURATION

\* isGenericArtist.genericNames (parser.ts lines 145-169)
genericNames ==
    <<
      <<"r", "e", "l", "e", "a", "s", "e">>,
      <<"v", "a", "r", "i", "o", "u", "s", " ", "a", "r", "t", "i", "s", "t", "s">>,
      <<"v", "a", "r", "i", "o", "u", "s">>,
      <<"u", "n", "k", "n", "o", "w", "n">>,
      <<"u", "n", "k", "n", "o", "w", "n", " ", "a", "r", "t", "i", "s", "t">>,
      <<"m", "u", "s", "i", "c">>, <<"s", "o", "n", "g", "s">>,
      <<"a", "u", "d", "i", "o">>,
      <<"o", "f", "f", "i", "c", "i", "a", "l">>,
      <<"l", "y", "r", "i", "c", "s">>,
      <<"l", "y", "r", "i", "c", " ", "v", "i", "d", "e", "o">>,
      <<"a", "u", "d", "i", "o", " ", "l", "i", "b", "r", "a", "r", "y">>,
      <<"n", "o", " ", "c", "o", "p", "y", "r", "i", "g", "h", "t", " ", "s", "o", "u", "n", "d", "s">>,
      <<"n", "c", "s">>,
      <<"t", "r", "a", "p", " ", "n", "a", "t", "i", "o", "n">>,
      <<"b", "a", "s", "s", " ", "n", "a", "t", "i", "o", "n">>,
      <<"p", "r", "o", "x", "i", "m", "i", "t", "y">>,
      <<"m", "r", "s", "u", "i", "c", "i", "d", "e", "s", "h", "e", "e", "p">>,
      <<"c", "h", "i", "l", "l", " ", "n", "a", "t", "i", "o", "n">>,
      <<"w", "a", "v", "e", " ", "m", "u", "s", "i", "c">>,
      <<"v", "e", "v", "o">>, <<"t", "o", "p", "i", "c">>, <<>>
    >>

\* isGenericArtist (parser.ts lines 144-175)
isGenericArtist(artist) ==
    LET normalized == trim(toLowerCase(artist))
    IN \E n \in 1..Len(genericNames) :
          \/ normalized = genericNames[n]
          \/ genericNames[n] # <<>> /\ includes(normalized, genericNames[n])

\* /^\d+$/.test(s)
allDigits(s) == s # <<>> /\ \A k \in 1..Len(s) : IsDigit(s[k])

\* The first group of /^(.+?)\s*SEP\s*.+$/ in s, or <<>> without a match: the
\* shortest prefix after which optional spaces and the separator come, with
\* something left after the separator.
beforeSeparator(s, sep) ==
    LET ends == {k \in 1..(Len(s) - 2) :
                    \E q \in (k + 1)..(Len(s) - 1) :
                       /\ s[q] = sep
                       /\ \A j \in (k + 1)..(q - 1) : IsSpace(s[j])}
    IN IF ends = {} THEN <<>>
       ELSE SubSeq(s, 1, CHOOSE k \in ends : \A j \in ends : k <= j)

\* The group of /^.+?\s+by\s+(.+)$/i in s, or <<>> without a match.
afterBy(s) ==
    LET at == {p \in 3..(Len(s) - 3) :
                  /\ toLowerCase(SubSeq(s, p, p + 1)) = <<"b", "y">>
                  /\ IsSpace(s[p - 1])
                  /\ IsSpace(s[p + 2])}
    IN IF at = {} THEN <<>>
       ELSE SubSeq(s, (CHOOSE p \in at : \A q \in at : p <= q) + 3, Len(s))

\* A separator pattern of extractArtistFromTitle: the trimmed group when it
\* is longer than two characters and not a number, else no result.
artistBefore(s, sep) ==
    LET artist == trim(beforeSeparator(s, sep))
    IN IF Len(artist) > 2 /\ ~allDigits(artist) THEN artist ELSE <<>>

\* extractArtistFromTitle (parser.ts lines 181-238) for titles without the
\* bracketed annotations its first step removes; <<>> stands for null.
extractArtistFromTitle(s) ==
    IF artistBefore(s, "-") # <<>> THEN artistBefore(s, "-")
    ELSE IF afterBy(s) # <<>> THEN trim(afterBy(s))
    ELSE IF artistBefore(s, "|") # <<>> THEN artistBefore(s, "|")
    ELSE artistBefore(s, ":")

\* s ends with word, whatever the case of its letters.
endsWithWord(s, word) ==
    /\ Len(s) >= Len(word)
    /\ toLowerCase(SubSeq(s, Len(s) - Len(word) + 1, Len(s))) = word

\* s.replace(/\s+WORD$/i, ""): the word at the end and the spaces before it
\* go when there is at least one space.
dropWord(s, word) ==
    LET rest == SubSeq(s, 1, Len(s) - Len(word))
    IN IF endsWithWord(s, word) /\ rest # <<>> /\ IsSpace(rest[Len(rest)])
       THEN trimEnd(rest)
       ELSE s

\* s.replace(/\s*-\s*topic$/i, "")
dropTopic(s) ==
    LET rest == trimEnd(SubSeq(s, 1, Len(s) - 5))
    IN IF endsWithWord(s, <<"t", "o", "p", "i", "c">>) /\ rest # <<>> /\ rest[Len(rest)] = "-"
       THEN trimEnd(SubSeq(rest, 1, Len(rest) - 1))
       ELSE s

\* cleanArtistName (parser.ts lines 130-139)
cleanArtistName(artist) ==
    trim(dropWord(dropWord(dropWord(dropWord(dropTopic(trim(artist)),
                                             <<"o", "f", "f", "i", "c", "i", "a", "l">>),
                                    <<"v", "e", "v", "o">>),
                           <<"m", "u", "s", "i", "c">>),
                  <<"r", "e", "c", "o", "r", "d", "s">>))

UnknownArtist == <<"U", "n", "k", "n", "o", "w", "n", " ", "A", "r", "t", "i", "s", "t">>

\* The artist kept when the name is not generic, else the one taken from the
\* title, else "Unknown Artist" (part_002 lines 111-118 and 243-246).
\* A variant that keeps the name as it is comes first.
artistOrExtractedKeepsName(name, songTitle) == name
artistOrExtracted(name, songTitle) ==
    IF ~isGenericArtist(name) THEN name
    ELSE IF extractArtistFromTitle(songTitle) # <<>>
    THEN extractArtistFromTitle(songTitle)
    ELSE UnknownArtist

\* The artist fetchFromYouTubeAPI gives an item (part_002 lines 108-118).
itemArtist(channelTitle, videoTitle) ==
    artistOrExtracted(cleanArtistName(channelTitle), videoTitle)

\* getDuration (lines 233-241)
getDuration(entry, metadata) ==
    IF songMetaOf(metadata, entry).duration > 0
    THEN songMetaOf(metadata, entry).duration
    ELSE estimateDuration(entry.title)

\* getArtist (lines 246-260)
getArtist(entry, metadata) ==
    LET songMeta == songMetaOf(metadata, entry)
    IN IF songMeta.artist # <<>> /\ ~isGenericArtist(songMeta.artist)
       THEN songMeta.artist
       ELSE IF ~isGenericArtist(entry.artist) THEN entry.artist
       ELSE IF extractArtistFromTitle(entry.originalTitle) # <<>>
       THEN extractArtistFromTitle(entry.originalTitle)
       ELSE entry.artist

\* The position of key in a Map kept as the sequence of its values in
\* insertion order, 0 when the key is not there.
mapIndex(map, key) ==
    IF \E k \in 1..Len(map) : map[k].key = key
    THEN CHOOSE k \in 1..Len(map) : map[k].key = key
    ELSE 0

\* Lines 303-338: the song of the play in songMap.
updateSong(map, entry, artist, songKey, duration) ==
    LET at == mapIndex(map, songKey)
    IN IF at # 0
       THEN [map EXCEPT ![at].playCount = @ + 1,
                        ![at].totalDuration = @ + duration]
       ELSE Append(map, [key |-> songKey, title |-> entry.title,
                         artist |-> artist, playCount |-> 1,
                         totalDuration |-> duration,
                         estimatedDuration |-> duration])

\* Lines 340-368: the artist of the play in artistMap.
updateArtist(map, artist, songKey, duration) ==
    LET artistKey == trim(toLowerCase(artist))
        at == mapIndex(map, artistKey)
    IN IF at # 0
       THEN [map EXCEPT ![at].playCount = @ + 1,
                        ![at].totalDuration = @ + duration,
                        ![at].songs = @ \cup {songKey}]
       ELSE Append(map, [key |-> artistKey, name |-> artist, playCount |-> 1,
                         totalDuration |-> duration, songs |-> {songKey}])

\* Lines 383-401: the decade of the play in decadeCountMap, when the play has
\* a release year.
updateDecade(map, releaseYear) ==
    LET at == mapIndex(map, getDecadeFromYear(releaseYear))
    IN IF releaseYear = 0 THEN map
       ELSE IF at # 0 THEN [map EXCEPT ![at].count = @ + 1]
       ELSE Append(map, [key |-> getDecadeFromYear(releaseYear), count |-> 1])

\* entry.playedAt.toISOString().split("T")[0] (line 293): the UTC day of the
\* play, as the number of the day.
dateStr(playedAt) == playedAt \div 86400000

\* Lines 369-380: the day of the play in dailyMap.
updateDaily(map, day, duration) ==
    LET at == mapIndex(map, day)
    IN IF at # 0
       THEN [map EXCEPT ![at].playCount = @ + 1,
                        ![at].totalDuration = @ + duration]
       ELSE Append(map, [key |-> day, playCount |-> 1,
                         totalDuration |-> duration])

\* Lines 384-397: the song of the play in songYearMap, when the play has a
\* release year.
updateSongYear(map, entry, artist, songKey, releaseYear) ==
    LET at == mapIndex(map, songKey)
    IN IF releaseYear = 0 THEN map
       ELSE IF at # 0 THEN [map EXCEPT ![at].playCount = @ + 1]
       ELSE Append(map, [key |-> songKey, title |-> entry.title,
                         artist |-> artist, year |-> releaseYear,
                         playCount |-> 1])

\* The body of the inner loop (lines 289-401) for one play, on the maps and
\* the sum it updates.  The first and last dates and the images are left
\* out.
groupEntry(acc, entry, metadata) ==
    LET artist == getArtist(entry, metadata)
        songKey == statsSongKey(artist, entry.title)
        duration == getDuration(entry, metadata)
        releaseYear == getReleaseYear(entry, metadata)
    IN [songMap |-> updateSong(acc.songMap, entry, artist, songKey, duration),
        artistMap |-> updateArtist(acc.artistMap, artist, songKey, duration),
        totalPlaytime |-> acc.totalPlaytime + duration,
        decadeCountMap |-> updateDecade(acc.decadeCountMap, releaseYear),
        dailyMap |-> updateDaily(acc.dailyMap, dateStr(entry.playedAt), duration),
        songYearMap |->
            updateSongYear(acc.songYearMap, entry, artist, songKey, releaseYear)]

\* The inner loop over entries[lo+1 .. hi], in order, computed by halves.
RECURSIVE groupRange(_, _, _, _, _)
groupRange(acc, entries, metadata, lo, hi) ==
    IF hi <= lo THEN acc
    ELSE IF hi = lo + 1 THEN groupEntry(acc, entries[hi], metadata)
    ELSE LET first == groupRange(acc, entries, metadata, lo, (lo + hi) \div 2)
         IN IF first.totalPlaytime >= 0  \* the first half is evaluated first
            THEN groupRange(first, entries, metadata, (lo + hi) \div 2, hi)
            ELSE first

\* const batchSize = capability === "high" ? 2000 : 500 (line 213)
statsBatchSize(cap) == IF cap = "high" THEN 2000 ELSE 500

\* The elements of seq[lo+1 .. hi] whose key is m, in order, by halves.
RECURSIVE withKey(_, _, _, _, _)
withKey(seq, keys, m, lo, hi) ==
    IF hi <= lo THEN <<>>
    ELSE IF hi = lo + 1 THEN (IF keys[hi] = m THEN <<seq[hi]>> ELSE <<>>)
    ELSE withKey(seq, keys, m, lo, (lo + hi) \div 2)
         \o withKey(seq, keys, m, (lo + hi) \div 2, hi)

RECURSIVE sortBuckets(_, _, _)
sortBuckets(seq, keys, remaining) ==
    IF remaining = {} THEN <<>>
    ELSE LET m == CHOOSE x \in remaining : \A y \in remaining : x <= y
         IN withKey(seq, keys, m, 0, Len(seq))
            \o sortBuckets(seq, keys, remaining \ {m})

\* Array.prototype.sort with a comparator on an integer key: ascending keys,
\* and elements with equal keys in the order they had (the sort is stable).
sortByKey(seq, keys) == sortBuckets(seq, keys, {keys[k] : k \in 1..Len(seq)})

\* Lines 417-430
topSongsOf(map) ==
    LET sorted == sortByKey(map, [k \in 1..Len(map) |-> 0 - map[k].playCount])
        top == slice(sorted, 0, 10)
    IN [k \in 1..Len(top) |->
          [key |-> top[k].key, title |-> top[k].title, artist |-> top[k].artist,
           duration |-> top[k].estimatedDuration,
           playCount |-> top[k].playCount,
           totalDuration |-> top[k].totalDuration]]

\* .filter((artist) => artist.name.toLowerCase() !== "release") (line 449)
RECURSIVE withoutRelease(_)
withoutRelease(map) ==
    IF map = <<>> THEN <<>>
    ELSE (IF toLowerCase(Head(map).name) # <<"r", "e", "l", "e", "a", "s", "e">>
          THEN <<Head(map)>> ELSE <<>>) \o withoutRelease(Tail(map))

\* Lines 448-458
topArtistsOf(map) ==
    LET kept == withoutRelease(map)
        sorted == sortByKey(kept, [k \in 1..Len(kept) |-> 0 - kept[k].playCount])
        top == slice(sorted, 0, 10)
    IN [k \in 1..Len(top) |->
          [name |-> top[k].name, playCount |-> top[k].playCount,
           totalDuration |-> top[k].totalDuration,
           uniqueSongs |-> Cardinality(top[k].songs)]]

Max(a, b) == IF a > b THEN a ELSE b

\* The milliseconds within which two plays belong to one session.
SESSION_GAP == 3600000

\* The body of the session loop (lines 487-498, part_013 lines 335-346) for a
\* play at playedAt lasting duration; lastPlayTime is -1 for null.
sessionStep(state, playedAt, duration) ==
    IF state.lastPlayTime # -1 /\ playedAt - state.lastPlayTime <= SESSION_GAP
    THEN [longestSession |-> state.longestSession,
          currentSession |-> state.currentSession + duration,
          lastPlayTime |-> playedAt]
    ELSE [longestSession |-> Max(state.longestSession, state.currentSession),
          currentSession |-> duration,
          lastPlayTime |-> playedAt]

\* The session loop over plays[lo+1 .. hi], by halves; plays are records with
\* playedAt and duration.
RECURSIVE sessionRange(_, _, _, _)
sessionRange(state, plays, lo, hi) ==
    IF hi <= lo THEN state
    ELSE IF hi = lo + 1
    THEN sessionStep(state, plays[hi].playedAt, plays[hi].duration)
    ELSE LET first == sessionRange(state, plays, lo, (lo + hi) \div 2)
         IN IF first.longestSession >= 0  \* the first half is evaluated first
            THEN sessionRange(first, plays, (lo + hi) \div 2, hi)
            ELSE first

\* The longest session closed so far, without the one still open.
closedSessionsOnly(state) == state.longestSession

\* The loop and the flush of the final session after it (line 500, part_013
\* line 347).
flushSession(state) == Max(state.longestSession, state.currentSession)

longestSessionOf(plays) ==
    flushSession(sessionRange([longestSession |-> 0, currentSession |-> 0,
                               lastPlayTime |-> -1], plays, 0, Len(plays)))

\* Lines 479-500: the plays sorted by time, each with getDuration.
clientLongestSession(entries, metadata) ==
    LET sortedEntries ==
            sortByKey(entries, [k \in 1..Len(entries) |-> entries[k].playedAt])
    IN longestSessionOf([k \in 1..Len(sortedEntries) |->
            [playedAt |-> sortedEntries[k].playedAt,
             duration |-> getDuration(sortedEntries[k], metadata)]])

\* Math.round((count / total) * 100) (line 615), in exact arithmetic: the
\* quotients met here are exact as doubles wherever they fall on a half.
roundedPercentage(count, total) == (200 * count + total) \div (2 * total)

RECURSIVE sumCounts(_)
sumCounts(map) ==
    IF map = <<>> THEN 0 ELSE Head(map).count + sumCounts(Tail(map))

\* Lines 606-620; <<>> stands for undefined.
decadeDistributionOf(map) ==
    LET totalDecadeListens == sumCounts(map)
        withPercentage ==
            [k \in 1..Len(map) |->
                [decade |-> map[k].key, count |-> map[k].count,
                 percentage |->
                     roundedPercentage(map[k].count, totalDecadeListens)]]
    IN IF totalDecadeListens > 0
       THEN sortByKey(withPercentage,
                      [k \in 1..Len(map) |-> 0 - map[k].count])
       ELSE <<>>

\* The song-age loop (lines 579-599) over the songs of songYearMap from the
\* k-th on; Unset stands for undefined.
RECURSIVE songAge(_, _, _)
songAge(state, map, k) ==
    IF k > Len(map) THEN state
    ELSE LET songData == map[k]
             song == Some([title |-> songData.title, artist |-> songData.artist,
                           year |-> songData.year])
             older == songData.year < state.oldestYear
             newer == songData.year > state.newestYear
         IN songAge([oldestYear |-> IF older THEN songData.year
                                    ELSE state.oldestYear,
                     oldestSong |-> IF older THEN song ELSE state.oldestSong,
                     newestYear |-> IF newer THEN songData.year
                                    ELSE state.newestYear,
                     newestSong |-> IF newer THEN song ELSE state.newestSong],
                    map, k + 1)

\* Lines 567-599: let oldestYear = CURRENT_YEAR, newestYear = 1900.
songAgeOf(map) ==
    songAge([oldestYear |-> CURRENT_YEAR, oldestSong |-> Unset,
             newestYear |-> 1900, newestSong |-> Unset], map, 1)

\* The next value of the batch loop's variable i (line 286).
nextStatsBatch(i, size) == i + size

\* One pass of the batch loop (lines 286-411).
CalculateStatsBatch ==
    /\ statPc = "grouping"
    /\ statI < Len(statEntries)
    /\ LET size == statsBatchSize(statCapability)
           batchEnd == Min(statI + size, Len(statEntries))
           acc == groupRange([songMap |-> songMap, artistMap |-> artistMap,
                              totalPlaytime |-> totalPlaytime,
                              decadeCountMap |-> decadeCountMap,
                              dailyMap |-> dailyMap,
                              songYearMap |-> songYearMap],
                             statEntries, statMetadata, statI, batchEnd)
       IN /\ songMap' = acc.songMap
          /\ artistMap' = acc.artistMap
          /\ totalPlaytime' = acc.totalPlaytime
          /\ decadeCountMap' = acc.decadeCountMap
          /\ dailyMap' = acc.dailyMap
          /\ songYearMap' = acc.songYearMap
          /\ statI' = nextStatsBatch(statI, size)
    /\ UNCHANGED <<statEntries, statMetadata, statCapability, statPc,
                   clientStats, serverStats>>
    /\ UNCHANGED exceptA

\* After the loop (lines 413-669): the lists, the sessions and the object
\* returned.
CalculateStatsReturn ==
    /\ statPc = "grouping"
    /\ statI >= Len(statEntries)
    /\ statPc' = "returned"
    /\ clientStats' =
          [totalSongs |-> Len(songMap),
           totalArtists |-> Len(artistMap),
           totalPlaytime |-> totalPlaytime,
           totalListens |-> totalListens(statEntries),
           longestSession |-> clientLongestSession(statEntries, statMetadata),
           topSongs |-> topSongsOf(songMap),
           topArtists |-> topArtistsOf(artistMap),
           decadeDistribution |-> decadeDistributionOf(decadeCountMap),
           oldestSong |-> songAgeOf(songYearMap).oldestSong,
           newestSong |-> songAgeOf(songYearMap).newestSong]
    /\ UNCHANGED <<statEntries, statMetadata, statCapability, statI, songMap,
                   artistMap, totalPlaytime, decadeCountMap, dailyMap,
                   songYearMap, serverStats>>
    /\ UNCHANGED exceptA

(***************************************************************************)
(* generateUserStats: the sessions and the two lists of the step           *)
(* calculate-stats (part_013 lines 325-386), over the plays as             *)
(* process-history-batch stored them.                                      *)
(***************************************************************************)
\* .replace(/[^\w\s]/g, "")
RECURSIVE removeSpecial(_)
removeSpecial(s) ==
    IF s = <<>> THEN <<>>
    ELSE (IF IsWordChar(Head(s)) \/ IsSpace(Head(s)) THEN <<Head(s)>> ELSE <<>>)
         \o removeSpecial(Tail(s))

\* SongDurationService.createSongKey.normalize (part_011 lines 336-341)
normalize(s) == trim(collapseWhitespace(removeSpecial(toLowerCase(s))))

\* SongDurationService.createSongKey (part_011 lines 335-344)
createSongKey(artist, songTitle) ==
    normalize(artist) \o <<" ", "-", " ">> \o normalize(songTitle)

\* The HistoryEntry of a play (part_013 lines 148-160); the duration stored
\* with it is taken to be the one calculateStats resolves for the play.
historyEntryOf(entry, metadata) ==
    [songTitle |-> entry.title, artistName |-> entry.artist,
     playedAt |-> entry.playedAt, duration |-> getDuration(entry, metadata),
     songKey |-> createSongKey(entry.artist, entry.title)]

\* One document joining its $group: by songKey (lines 352-360) ...
groupSong(groups, doc) ==
    LET at == mapIndex(groups, doc.songKey)
    IN IF at # 0
       THEN [groups EXCEPT ![at].playCount = @ + 1,
                           ![at].totalDuration = @ + doc.duration]
       ELSE Append(groups, [key |-> doc.songKey, title |-> doc.songTitle,
                            artist |-> doc.artistName, playCount |-> 1,
                            totalDuration |-> doc.duration])

\* ... and by artistName (lines 368-383).
groupArtist(groups, doc) ==
    LET at == mapIndex(groups, doc.artistName)
    IN IF at # 0
       THEN [groups EXCEPT ![at].playCount = @ + 1,
                           ![at].totalDuration = @ + doc.duration,
                           ![at].songs = @ \cup {doc.songKey}]
       ELSE Append(groups, [key |-> doc.artistName, name |-> doc.artistName,
                            playCount |-> 1, totalDuration |-> doc.duration,
                            songs |-> {doc.songKey}])

\* The groups of docs[lo+1 .. hi], by halves; by is "song" or "artist".
RECURSIVE groupDocs(_, _, _, _, _)
groupDocs(groups, docs, by, lo, hi) ==
    IF hi <= lo THEN groups
    ELSE IF hi = lo + 1
    THEN (IF by = "song" THEN groupSong(groups, docs[hi])
          ELSE groupArtist(groups, docs[hi]))
    ELSE LET first == groupDocs(groups, docs, by, lo, (lo + hi) \div 2)
         IN IF Len(first) >= 0  \* the first half is evaluated first
            THEN groupDocs(first, docs, by, (lo + hi) \div 2, hi)
            ELSE first

reverse(seq) == [k \in 1..Len(seq) |-> seq[Len(seq) + 1 - k]]

\* { $sort: { playCount: -1 } }, { $limit: 10 }: groups leave $group in no
\* specified order and $sort fixes no order among equal counts.  The orders
\* taken here are the one in which the groups were first met and its reverse.
sortAndLimit(groups, order) ==
    LET arranged == IF order = "first-met" THEN groups ELSE reverse(groups)
    IN slice(sortByKey(arranged,
                       [k \in 1..Len(arranged) |-> 0 - arranged[k].playCount]),
             0, 10)

\* Lines 325-347: HistoryEntry.find(...).sort({ playedAt: 1 }) and the loop,
\* with entry.duration || 0.
serverLongestSession(docs) ==
    longestSessionOf(sortByKey(docs, [k \in 1..Len(docs) |-> docs[k].playedAt]))

\* The step calculate-stats over the stored plays: what it passes to
\* updateUserStats (lines 424-462) of the sessions and the lists.
UserStatsAggregates ==
    /\ statPc = "calculate-stats"
    /\ Len(statEntries) > 0  \* if (stats.length > 0): the $match found plays
    /\ LET docs == [k \in 1..Len(statEntries) |->
                       historyEntryOf(statEntries[k], statMetadata)]
           songs == groupDocs(<<>>, docs, "song", 0, Len(docs))
           artists == groupDocs(<<>>, docs, "artist", 0, Len(docs))
       IN \E songOrder \in {"first-met", "reversed"},
             artistOrder \in {"first-met", "reversed"} :
            serverStats' =
               [totalListens |-> Len(docs),
                longestSession |-> serverLongestSession(docs),
                topSongs |-> sortAndLimit(songs, songOrder),
                topArtists |->
                   LET top == sortAndLimit(artists, artistOrder)
                   IN [k \in 1..Len(top) |->
                         [name |-> top[k].name, playCount |-> top[k].playCount,
                          totalDuration |-> top[k].totalDuration,
                          uniqueSongs |-> Cardinality(top[k].songs)]]]
    /\ statPc' = "stats-updated"
    /\ UNCHANGED <<statEntries, statMetadata, statCapability, statI, songMap,
                   artistMap, totalPlaytime, decadeCountMap, dailyMap,
                   songYearMap, clientStats>>
    /\ UNCHANGED exceptA

(***************************************************************************)
(* SongDurationService (part_011).  Confidences are in hundredths.         *)
(***************************************************************************)
GLOBAL_AVERAGE == 210

\* GENRE_AVERAGES (lines 141-199) for the genres met here; 0 for a name that
\* is not a key of the table.
genreAverage(genre) ==
    CASE genre = <<"p", "o", "p">> -> 195
      [] genre = <<"p", "u", "n", "k">> -> 150
      [] genre = <<"d", "e", "f", "a", "u", "l", "t">> -> 210
      [] OTHER -> 0

estimateOf(duration, method, confidence) ==
    [duration |-> duration, method |-> method, confidence |-> confidence]

\* estimateFromTitlePatterns (lines 207-294)
estimateFromTitlePatterns(songTitle) ==
    LET lowerTitle == toLowerCase(songTitle)
    IN IF includes(lowerTitle, <<"i", "n", "t", "r", "o">>)
          /\ ~includes(lowerTitle, <<"i", "n", "t", "r", "o", "d", "u", "c", "t", "i", "o", "n">>)
       THEN estimateOf(90, "title-pattern", 85)
       ELSE IF includes(lowerTitle, <<"o", "u", "t", "r", "o">>)
               \/ includes(lowerTitle, <<"i", "n", "t", "e", "r", "l", "u", "d", "e">>)
       THEN estimateOf(120, "title-pattern", 85)
       ELSE IF includes(lowerTitle, <<"e", "x", "t", "e", "n", "d", "e", "d">>)
       THEN estimateOf(390, "title-pattern", 80)
       ELSE IF includes(lowerTitle, <<"r", "a", "d", "i", "o", " ", "e", "d", "i", "t">>)
       THEN estimateOf(195, "title-pattern", 90)
       ELSE IF includes(lowerTitle, <<"c", "l", "u", "b", " ", "m", "i", "x">>)
               \/ includes(lowerTitle, <<"c", "l", "u", "b", " ", "r", "e", "m", "i", "x">>)
       THEN estimateOf(345, "title-pattern", 85)
       ELSE IF includes(lowerTitle, <<"r", "e", "m", "i", "x">>)
               /\ ~includes(lowerTitle, <<"r", "a", "d", "i", "o">>)
       THEN estimateOf(270, "title-pattern", 75)
       ELSE IF includes(lowerTitle, <<"l", "i", "v", "e">>)
               /\ ~includes(lowerTitle, <<"o", "l", "i", "v", "e">>)
       THEN estimateOf(285, "title-pattern", 70)
       ELSE IF includes(lowerTitle, <<"a", "c", "o", "u", "s", "t", "i", "c">>)
       THEN estimateOf(200, "title-pattern", 75)
       ELSE IF includes(lowerTitle, <<"d", "e", "m", "o">>)
       THEN estimateOf(180, "title-pattern", 70)
       ELSE IF includes(lowerTitle, <<"i", "n", "s", "t", "r", "u", "m", "e", "n", "t", "a", "l">>)
       THEN estimateOf(210, "title-pattern", 75)
       ELSE estimateOf(0, "title-pattern", 0)

\* estimateFromGenre (lines 299-330): the first genre that is a key of the
\* table, else the default with less confidence.
estimateFromGenre(genres) ==
    LET matching == {g \in 1..Len(genres) : genreAverage(toLowerCase(genres[g])) # 0}
    IN IF matching = {}
       THEN estimateOf(genreAverage(<<"d", "e", "f", "a", "u", "l", "t">>), "genre-default", 50)
       ELSE estimateOf(
              genreAverage(toLowerCase(
                  genres[CHOOSE g \in matching : \A h \in matching : g <= h])),
              "genre-default", 60)

\* Step 3 of batchEstimateDurations (lines 487-552) for one song.
fallbackEstimate(song) ==
    LET patternEstimate == estimateFromTitlePatterns(song.title)
        genreEstimate == estimateFromGenre(song.genres)
    IN IF patternEstimate.confidence > 70 THEN patternEstimate
       ELSE IF genreEstimate.confidence > 50 THEN genreEstimate
       ELSE estimateOf(GLOBAL_AVERAGE, "global-average", 40)

\* What YouTubeService.batchGetVideoMetadataBulk holds for a video it found
\* (processing-status.tsx lines 455-466).
youtubeDataOf(youtubeId) == estimateOf(247, "youtube-api", 100)

\* Song.findOneAndUpdate({ key }, { ... }, { upsert: true }) on the cache,
\* kept as the sequence of its documents (lines 362-395, 562-600).
cacheSongDuration(cache, key, estimate) ==
    LET at == mapIndex(cache, key)
        doc == [key |-> key, duration |-> estimate.duration,
                method |-> estimate.method, confidence |-> estimate.confidence]
    IN IF at # 0 THEN [cache EXCEPT ![at] = doc] ELSE Append(cache, doc)

estimateKey(song) == createSongKey(song.artist, song.title)

\* The result batchEstimateDurations gives song i of the batch, from the
\* cache as it was when the batch began (step 1), else from YouTube when the
\* song has an id the provider answered for (step 2), else from step 3.
batchResult(cache, song, found) ==
    LET at == mapIndex(cache, estimateKey(song))
    IN IF at # 0
       THEN estimateOf(cache[at].duration, cache[at].method, cache[at].confidence)
       ELSE IF song.youtubeId # "" /\ song.youtubeId \in found
       THEN youtubeDataOf(song.youtubeId)
       ELSE fallbackEstimate(song)

\* The step of batchEstimateDurations that gives song i its result: 1 the
\* cache, 2 the provider, 3 the estimates.
resultStep(cache, song, found) ==
    IF mapIndex(cache, estimateKey(song)) # 0 THEN 1
    ELSE IF song.youtubeId # "" /\ song.youtubeId \in found THEN 2
    ELSE 3

\* The cache after the writes of one step over the songs that were not
\* cached when the batch began: step 2 writes those YouTube answered for,
\* step 3 the others.
RECURSIVE cacheAfterStep(_, _, _, _, _)
cacheAfterStep(cache, before, songs, found, step) ==
    IF songs = <<>> THEN cache
    ELSE LET song == Head(songs)
             uncached == mapIndex(before, estimateKey(song)) = 0
             fromYouTube == song.youtubeId # "" /\ song.youtubeId \in found
             written ==
                IF uncached /\ (step = 2) = fromYouTube
                THEN cacheSongDuration(cache, estimateKey(song),
                                       batchResult(before, song, found))
                ELSE cache
         IN cacheAfterStep(written, before, Tail(songs), found, step)

MaxEstimateCalls == 2
MaxBatchSongs == 2

\* The songs estimated: a plain one, the same with a genre, the same spelt
\* with other case and punctuation, the same with a video id, a remix, and
\* a live recording with a genre the table does not have.
EstimatedSong(songTitle, artist, genres, youtubeId) ==
    [title |-> songTitle, artist |-> artist, genres |-> genres,
     youtubeId |-> youtubeId]

EstimatedSongs ==
    {EstimatedSong(<<"S", "o", "n", "g">>, <<"A", "b", "c">>, <<>>, ""),
     EstimatedSong(<<"S", "o", "n", "g">>, <<"A", "b", "c">>, <<<<"P", "o", "p">>>>, ""),
     EstimatedSong(<<"s", "o", "n", "g", "!">>, <<"A", "B", "C">>, <<>>, ""),
     EstimatedSong(<<"S", "o", "n", "g">>, <<"A", "b", "c">>, <<>>, "v1"),
     EstimatedSong(<<"S", "o", "n", "g", " ", "R", "e", "m", "i", "x">>, <<"A", "b", "c">>, <<>>, ""),
     EstimatedSong(<<"L", "i", "v", "e">>, <<"A", "b", "c">>, <<<<"J", "i", "g">>>>, "")}

SongBatches == UNION {[1..n -> EstimatedSongs] : n \in 1..MaxBatchSongs}

\* batchEstimateDurations (lines 400-557) on a batch; found holds the ids the
\* provider answers for.
BatchEstimateDurations ==
    /\ estimateCalls < MaxEstimateCalls
    /\ \E songs \in SongBatches, found \in SUBSET {"v1"} :
         /\ songCache' =
               cacheAfterStep(cacheAfterStep(songCache, songCache, songs, found, 2),
                              songCache, songs, found, 3)
         /\ estimateLog' =
               estimateLog \cup
                 {[title |-> songs[i].title, artist |-> songs[i].artist,
                   genres |-> songs[i].genres, youtubeId |-> songs[i].youtubeId,
                   answered |-> songs[i].youtubeId \in found,
                   step |-> resultStep(songCache, songs[i], found),
                   estimate |-> batchResult(songCache, songs[i], found)] :
                    i \in 1..Len(songs)}
    /\ estimateCalls' = estimateCalls + 1
    /\ UNCHANGED exceptE

\* updateSongWithAPIData (lines 562-600): the enrichment stores the length
\* the provider gave for a song.
UpdateSongWithAPIData ==
    /\ \E song \in EstimatedSongs :
         songCache' = cacheSongDuration(songCache, estimateKey(song),
                                        estimateOf(247, "youtube-api", 95))
    /\ UNCHANGED <<estimateCalls, estimateLog>>
    /\ UNCHANGED exceptE

(***************************************************************************)
(* The specifications.                                                     *)
(***************************************************************************)
vars == <<pvars, lvars, yvars, cvars>>

PInit ==
    /\ MusicHistory = [h \in HistoryIds |-> NoDoc]
    /\ HistoryEntry = EmptyBag
    /\ UserMusicHistories = {}
    /\ UserStats = NoDoc
    /\ uploadPc = "idle"
    /\ uploads = 0
    /\ cleanupOk = TRUE
    /\ runPc = [h \in HistoryIds |-> "not-sent"]
    /\ attempt = [h \in HistoryIds |-> 0]
    /\ batchI = [h \in HistoryIds |-> 0]
    /\ parseResult = [h \in HistoryIds |-> Unset]
    /\ statsJob = [h \in HistoryIds |-> "none"]

\* The state of a call of lookupSongs before its first step.
LCalled ==
    /\ lookupPc = "called"
    /\ cachedMap = <<>>
    /\ idsToFetch = <<>>
    /\ fetchI = 0
    /\ results = <<>>
    /\ videoChannelMap = <<>>
    /\ channelThumbnails = <<>>
    /\ upsertI = 0
    /\ lookupResult = [success |-> FALSE, error |-> "pending"]
    /\ cacheReads = 0
    /\ providerLog = <<>>
    /\ upsertLog = <<>>

\* A document of the cache, with or without a thumbnail.
CacheDoc(id, thumbnail) ==
    [youtubeId |-> id, duration |-> 200, thumbnail |-> thumbnail,
     artistImage |-> None]

\* The videos that may be in the cache when the call begins.
CachedCandidates == {1, 2}

\* The Origin headers tried: none, the application's own, its host on
\* another port, a host that only begins with the application's, another host.
Origins ==
    {<<>>,
     BETTER_AUTH_URL,
     <<"h", ":", "/", "/", "a", ".", "b", ":", "4">>,
     <<"h", ":", "/", "/", "a", ".", "b", ".", "e">>,
     <<"h", ":", "/", "/", "e", ".", "b">>}

\* The playlist, and a request of one id more than lookupSongs keeps.
DenseRequest == [k \in 1..(YOUTUBE_BATCH_SIZE + 1) |-> MAX_VIDEO_IDS + 1000 + k]
LongRequest == Ids(MAX_VIDEO_IDS + 1)

\* The origin check does not read the ids: the requests of more than one
\* batch are tried with the application's own Origin header only, and the
\* playlist and the long request by a signed-in user with a key configured,
\* video 1 being cached with a thumbnail and video 2 without.
LInit ==
    /\ videoIds \in {Ids(n) : n \in RequestLengths}
                      \cup {<<1, 1>>, DenseRequest, LongRequest}
    /\ origin \in Origins
    /\ Len(videoIds) > YOUTUBE_BATCH_SIZE => origin = BETTER_AUTH_URL
    /\ session \in BOOLEAN
    /\ apiKey \in BOOLEAN
    /\ ~FailuresTried => session /\ apiKey
    /\ \E state \in [CachedCandidates -> {"absent", "no-thumbnail", "thumbnail"}] :
         /\ ~FailuresTried => state = (1 :> "thumbnail") @@ (2 :> "no-thumbnail")
         /\ Song = [id \in VideoIds |->
                    IF id \in CachedCandidates /\ state[id] # "absent"
                    THEN CacheDoc(id, IF state[id] = "thumbnail" THEN "cached"
                                      ELSE None)
                    ELSE NoDoc]
    /\ LCalled

\* No call of lookupSongs.
LIdle ==
    /\ videoIds = <<>>
    /\ origin = <<>>
    /\ session = FALSE
    /\ apiKey = FALSE
    /\ Song = [id \in VideoIds |-> NoDoc]
    /\ LCalled

YInit ==
    /\ ytVideoIds \in {Ids(n) : n \in RequestLengths}
    /\ ytApiKey \in BOOLEAN
    /\ ytPc = "called"
    /\ ytI = 0
    /\ ytResults = <<>>
    /\ ytLog = <<>>

\* No call of batchGetVideoMetadataBulk.
YIdle ==
    /\ ytVideoIds = <<>>
    /\ ytApiKey = FALSE
    /\ ytPc = "called"
    /\ ytI = 0
    /\ ytResults = <<>>
    /\ ytLog = <<>>

\* The titles tried: every sequence of up to MaxTitleLen lexemes.
Titles == UNION {[1..n -> Lexemes] : n \in 0..MaxTitleLen}

TInit ==
    /\ title \in Titles
    /\ cleaned = <<>>

\* No title being cleaned.
TIdle ==
    /\ title = <<>>
    /\ cleaned = <<>>

\* A record of a payload.
Record(titleType, titleText, time, header) ==
    [json |-> "object", titleType |-> titleType, title |-> titleText,
     time |-> time, header |-> header]

\* A title of n characters.
TitleOfLength(n) == [k \in 1..n |-> "x"]

\* The records tried: two that give an event, one with a date that does not
\* parse, one for each way of not qualifying, a title of exactly 200
\* characters, a title that is a number, null and a scalar.
SongTitle == <<"S", "o", "n", "g">>
Records ==
    {Record("string", SongTitle, "t1", YouTubeMusic),
     Record("string", <<"a", "b", "c">>, "t2", YouTubeMusic),
     Record("string", SongTitle, "bad", YouTubeMusic),
     Record("string", SongTitle, "", YouTubeMusic),
     Record("string", <<>>, "t1", YouTubeMusic),
     Record("string", SongTitle, "t1", "YouTube"),
     Record("string", <<"W", "a", "t", "c", "h", "e", "d", " ", "a", " ", "v",
                        "i", "d", "e", "o">>, "t1", YouTubeMusic),
     Record("string", <<"S", "e", "a", "r", "c", "h", "e", "d", " ", "f", "o",
                        "r", " ", "x">>, "t1", YouTubeMusic),
     Record("string", <<"a", "b">>, "t1", YouTubeMusic),
     Record("string", TitleOfLength(200), "t1", YouTubeMusic),
     Record("string", TitleOfLength(201), "t1", YouTubeMusic),
     Record("number", <<"7">>, "t1", YouTubeMusic),
     [json |-> "null"],
     [json |-> "number"]}

\* The longest payload of which every filling is tried.
MaxRecords == 2

\* The long payloads: n records, a play and a record of another product in
\* turn, with record r at the places around the ends of the batches.
LongPayload(n, r) ==
    [k \in 1..n |->
        IF k \in {500, 501, n} THEN r
        ELSE IF k % 2 = 0 THEN Record("string", SongTitle, "t1", YouTubeMusic)
        ELSE Record("string", SongTitle, "t1", "YouTube")]

LongLengths == {500, 501, 1001, 2001}

Payloads ==
    UNION {[1..n -> Records] : n \in 0..MaxRecords}
      \cup {LongPayload(n, r) : n \in LongLengths, r \in Records}

\* The texts tried: not JSON, JSON that is no array, and the payloads.
FileContents ==
    {[kind |-> "invalid-json", data |-> <<>>], [kind |-> "not-array", data |-> <<>>]}
      \cup {[kind |-> "array", data |-> d] : d \in Payloads}

GCalled ==
    /\ parserPc = "called"
    /\ parserI = 0
    /\ parserEntries = <<>>
    /\ parserMusicEntries = 0
    /\ parserResult = NoDoc

GInit ==
    /\ fileContent \in FileContents
    /\ capability \in {"high", "low"}
    /\ GCalled

\* No call of parseGoogleTakeoutFile.
GIdle ==
    /\ fileContent = [kind |-> "array", data |-> <<>>]
    /\ capability = "low"
    /\ parserPc = "idle"
    /\ parserI = 0
    /\ parserEntries = <<>>
    /\ parserMusicEntries = 0
    /\ parserResult = NoDoc

\* The payloads that reach the cap: n records that throw (null), or n records
\* whose date does not parse, then a tail.
ErrorPayload(n, r, tail) == [k \in 1..n |-> r] \o tail

ErrorPayloads ==
    {ErrorPayload(n, r, tail) :
        n \in {MAX_ERRORS, MAX_ERRORS + 1, MAX_ERRORS + 2},
        r \in {[json |-> "null"],
               Record("string", SongTitle, "bad", YouTubeMusic)},
        tail \in {<<>>,
                  <<Record("string", SongTitle, "t1", YouTubeMusic)>>,
                  <<[json |-> "null"]>>}}

JsonContents ==
    {[kind |-> "invalid-json", data |-> <<>>], [kind |-> "not-array", data |-> <<>>]}
      \cup {[kind |-> "array", data |-> d] :
              d \in UNION {[1..n -> Records] : n \in 0..MaxRecords}
                      \cup ErrorPayloads}

HCalled ==
    /\ takeoutPc = "called"
    /\ takeoutI = 0
    /\ takeoutEntries = <<>>
    /\ takeoutErrors = <<>>
    /\ takeoutMusicEntries = 0
    /\ takeoutResult = NoDoc

HInit ==
    /\ jsonContent \in JsonContents
    /\ HCalled

\* No call of GoogleTakeoutParser.parseHistoryFile.
HIdle ==
    /\ jsonContent = [kind |-> "array", data |-> <<>>]
    /\ takeoutPc = "called"
    /\ takeoutI = 0
    /\ takeoutEntries = <<>>
    /\ takeoutErrors = <<>>
    /\ takeoutMusicEntries = 0
    /\ takeoutResult = NoDoc

\* The plays given to calculateStats.  A play is a ParsedSongInfo: title,
\* artist, originalTitle, playedAt in milliseconds and youtubeId ("" for none).
Play(songTitle, artist, originalTitle, playedAt, youtubeId) ==
    [title |-> songTitle, artist |-> artist, originalTitle |-> originalTitle,
     playedAt |-> playedAt, youtubeId |-> youtubeId]

\* Two spellings of one song, a live track with a year and an id, and two
\* plays the parser filed under the channel name "Release": one whose title
\* names no artist and one whose title does.
Tracks ==
    <<Play(<<"H", "i", "t">>, <<"A", "b", "c">>,
           <<"A", "b", "c", " ", "-", " ", "H", "i", "t">>, 0, ""),
      Play(<<"h", "i", "t">>, <<"A", "B", "C">>,
           <<"A", "B", "C", " ", "-", " ", "h", "i", "t">>, 0, ""),
      Play(<<"L", "i", "v", "e">>, <<"X", "y", "z">>,
           <<"X", "y", "z", " ", "-", " ", "L", "i", "v", "e", " ", "(", "1", "9", "9", "9", ")">>, 0, "v1"),
      Play(<<"H", "i", "t">>, <<"R", "e", "l", "e", "a", "s", "e">>,
           <<"H", "i", "t">>, 0, ""),
      Play(<<"I", "n", "t", "r", "o">>, <<"R", "e", "l", "e", "a", "s", "e">>,
           <<"R", "e", "a", "l", " ", "-", " ", "I", "n", "t", "r", "o", " ", "1", "9", "8", "5">>, 0, "v2")>>

\* Two plays an hour apart to the millisecond, and a third one millisecond
\* more than an hour after the second.
Times == {0, SESSION_GAP, 2 * SESSION_GAP + 1}

At(track, playedAt) == [track EXCEPT !.playedAt = playedAt]

Plays == {At(Tracks[t], playedAt) : t \in 1..Len(Tracks), playedAt \in Times}

MaxPlays == 2

\* Three plays of one track: the first two in one session, the third alone.
ExamplePlays ==
    <<At(Tracks[3], 0), At(Tracks[3], SESSION_GAP),
      At(Tracks[3], 2 * SESSION_GAP + 1)>>

\* Song k of n songs by n artists, and the plays of the n songs, song k
\* played counts[k] times: first every song once in order, then again those
\* with more plays to come.
NthSong(k, playedAt) ==
    Play(<<"T", LowerCase[k]>>, <<"A", "r", LowerCase[k]>>,
         <<"T", LowerCase[k]>>, playedAt, "")

RECURSIVE RankedPlays(_, _, _)
RankedPlays(n, counts, round) ==
    LET playing == {k \in 1..n : counts[k] >= round}
        songs == sortByKey([k \in 1..n |-> NthSong(k, round * 1000 + k)],
                           [k \in 1..n |-> IF k \in playing THEN 0 ELSE 1])
    IN IF playing = {} THEN <<>>
       ELSE SubSeq(songs, 1, Cardinality(playing))
            \o RankedPlays(n, counts, round + 1)

RankedFamilies ==
    {RankedPlays(n, [k \in 1..n |-> 1], 1) : n \in {11, 12}}
      \cup {RankedPlays(n, [k \in 1..n |-> (k % 3) + 1], 1) : n \in {11, 12}}

\* The digits of a year of four digits.
yearDigits(year) ==
    <<Digits[(year \div 1000) + 1], Digits[((year \div 100) % 10) + 1],
      Digits[((year \div 10) % 10) + 1], Digits[(year % 10) + 1]>>

\* Plays of n songs of n decades from the 1950s on, each played each times.
DecadePlays(n, each) ==
    [k \in 1..(n * each) |->
        LET d == (k - 1) % n
        IN Play(<<"Y", LowerCase[d + 1]>>, <<"A", "r", LowerCase[d + 1]>>,
                <<"Y", LowerCase[d + 1], " ", "(">> \o yearDigits(1955 + 10 * d)
                  \o <<")">>,
                k * 1000, "")]

DecadeFamilies == {DecadePlays(n, each) : n \in 1..8, each \in 1..2}

\* Plays that take more than one batch: n plays over the tracks in turn.
LongPlays(n) ==
    [k \in 1..n |-> At(Tracks[(k % Len(Tracks)) + 1], (k % 3) * SESSION_GAP)]

LongFamilies == {LongPlays(n) : n \in {500, 501}}

\* A song of the year `year`, named in its title.
YearSong(name, year, playedAt) ==
    Play(name, <<"N", "e", "w">>,
         name \o <<" ", "(">> \o yearDigits(year) \o <<")">>, playedAt, "")

\* Libraries whose songs with a year are of this year and of the next one,
\* alone and with an older song, the plays a day apart.
YearFamilies ==
    {<<YearSong(<<"N", "o", "w">>, CURRENT_YEAR, 0)>>,
     <<YearSong(<<"N", "o", "w">>, CURRENT_YEAR, 0),
       YearSong(<<"S", "o", "o", "n">>, CURRENT_YEAR + 1, 86400000)>>,
     <<YearSong(<<"N", "o", "w">>, CURRENT_YEAR, 0),
       YearSong(<<"O", "l", "d">>, 1999, 86400000),
       YearSong(<<"N", "o", "w">>, CURRENT_YEAR, 2 * 86400000)>>}

\* Two songs whose artist and title join to the same key: "c" by "a - b",
\* and "b - c" by "a".
SameKeyPlays ==
    <<Play(<<"c">>, <<"a", " ", "-", " ", "b">>, <<"c">>, 0, ""),
      Play(<<"b", " ", "-", " ", "c">>, <<"a">>,
           <<"a", " ", "-", " ", "b", " ", "-", " ", "c">>, 1000, "")>>

StatEntries ==
    UNION {[1..n -> Plays] : n \in 0..MaxPlays}
      \cup {ExamplePlays} \cup RankedFamilies \cup DecadeFamilies
      \cup LongFamilies \cup YearFamilies \cup {SameKeyPlays}

\* No metadata, or the metadata of the two ids: one with a duration, an
\* artist and a release date, one with a generic artist and nothing else.
Metadatas ==
    {<<>>,
     [id \in {"v1", "v2"} |->
        IF id = "v1"
        THEN [duration |-> 200, artist |-> <<"R", "e", "a", "l">>,
              releaseYear |-> 2005]
        ELSE [duration |-> 0, artist |-> <<"R", "e", "l", "e", "a", "s", "e">>,
              releaseYear |-> 0]]}

\* One call of calculateStats, or one run of the step calculate-stats over
\* the same plays once stored (the step is given no metadata).  Up to
\* MaxPlays plays make one batch on any device: they are tried on a capable
\* one, with the metadata when a play has an id.
AInit ==
    /\ statEntries \in StatEntries
    /\ \/ /\ statPc = "grouping"
          /\ statCapability \in {"high", "low"}
          /\ statMetadata \in Metadatas
          /\ Len(statEntries) <= MaxPlays =>
                /\ statCapability = "high"
                /\ statMetadata # <<>> =>
                      \E k \in 1..Len(statEntries) :
                         statEntries[k].youtubeId # ""
       \/ /\ statPc = "calculate-stats"
          /\ statCapability = "low"
          /\ statMetadata = <<>>
    /\ statI = 0
    /\ songMap = <<>>
    /\ artistMap = <<>>
    /\ totalPlaytime = 0
    /\ decadeCountMap = <<>>
    /\ dailyMap = <<>>
    /\ songYearMap = <<>>
    /\ clientStats = NoDoc
    /\ serverStats = NoDoc

\* No call of calculateStats.
AIdle ==
    /\ statEntries = <<>>
    /\ statMetadata = <<>>
    /\ statCapability = "low"
    /\ statPc = "idle"
    /\ statI = 0
    /\ songMap = <<>>
    /\ artistMap = <<>>
    /\ totalPlaytime = 0
    /\ decadeCountMap = <<>>
    /\ dailyMap = <<>>
    /\ songYearMap = <<>>
    /\ clientStats = NoDoc
    /\ serverStats = NoDoc

\* No call of batchEstimateDurations.
EIdle ==
    /\ songCache = <<>>
    /\ estimateCalls = 0
    /\ estimateLog = {}

\* No artist being corrected.
RIdle ==
    /\ artistPc = "idle"
    /\ itemChannelTitle = <<>>
    /\ itemTitle = <<>>
    /\ songArtist = <<>>
    /\ artistResult = <<>>

\* No batch loop followed.
KIdle ==
    /\ loopOf = "none"
    /\ loopLength = 0
    /\ loopCapability = "low"
    /\ loopI = 0
    /\ unyielded = 0
    /\ yields = 0

\* No save made.
NoSave == [status |-> "none"]
UIdle ==
    /\ userStatsDocs = <<>>
    /\ saveCount = 0
    /\ lastSave = NoSave

NIdle == RIdle /\ KIdle /\ UIdle

\* The server-side code at rest, and the browser-side code at rest.
SIdle == PInit /\ LIdle /\ YIdle /\ NIdle
CIdle == TIdle /\ GIdle /\ HIdle /\ AIdle /\ EIdle /\ NIdle

PNext ==
    \/ UploadCleanup
    \/ UploadCreate
    \/ UploadSend
    \/ \E h \in HistoryIds :
         \/ InitializeProcessing(h)
         \/ ParseJsonFile(h)
         \/ CheckEntries(h)
         \/ ProcessBatch(h)
         \/ GenerateUserStatistics(h)
         \/ CompleteProcessing(h)
         \/ ScheduleEnrichment(h)
         \/ TriggerCleanup(h)
         \/ CalculateStats(h)

LNext ==
    \/ LookupStart
    \/ FetchVideosBatch
    \/ FetchChannelsBatch
    \/ UpsertSong
    \/ LookupReturn

YNext ==
    \/ YTStart
    \/ YTBatch

\* The upload endpoint and the pipeline of one user.
Init == PInit /\ LIdle /\ YIdle /\ CIdle
Spec == Init /\ [][PNext]_vars

\* One call of lookupSongs.
InitLookup == PInit /\ LInit /\ YIdle /\ CIdle
SpecLookup == InitLookup /\ [][LNext]_vars

\* One call of YouTubeService.batchGetVideoMetadataBulk.
InitYT == PInit /\ LIdle /\ YInit /\ CIdle
SpecYT == InitYT /\ [][YNext]_vars

\* Applications of cleanTitle to one title.
InitTitle == SIdle /\ TInit /\ GIdle /\ HIdle /\ AIdle /\ EIdle
SpecTitle == InitTitle /\ [][CleanTitle]_vars

GNext ==
    \/ ParserStart
    \/ ParserBatch
    \/ ParserReturn

HNext ==
    \/ TakeoutStart
    \/ TakeoutRecord
    \/ TakeoutReturn

\* One call of GoogleTakeoutParser.parseHistoryFile.
InitTakeout == SIdle /\ TIdle /\ GIdle /\ HInit /\ AIdle /\ EIdle
SpecTakeout == InitTakeout /\ [][HNext]_vars

\* One call of parseGoogleTakeoutFile.
InitParser == SIdle /\ TIdle /\ GInit /\ HIdle /\ AIdle /\ EIdle
SpecParser == InitParser /\ [][GNext]_vars

ANext ==
    \/ CalculateStatsBatch
    \/ CalculateStatsReturn
    \/ UserStatsAggregates

\* One call of calculateStats or one run of calculate-stats.
InitStats == SIdle /\ TIdle /\ GIdle /\ HIdle /\ AInit /\ EIdle
SpecStats == InitStats /\ [][ANext]_vars

(***************************************************************************)
(* The artist of a provider item (fetchFromYouTubeAPI) and of a cached     *)
(* song (lookupSongs).                                                     *)
(***************************************************************************)
\* The channel titles and the video titles tried.
ChannelTitles ==
    {<<"R", "e", "l", "e", "a", "s", "e">>,
     <<"A", "d", "e", "l", "e", " ", "-", " ", "T", "o", "p", "i", "c">>,
     <<"S", "o", "n", "y", " ", "M", "u", "s", "i", "c">>,
     <<"A", "d", "e", "l", "e", "V", "E", "V", "O">>,
     <<"A", "d", "e", "l", "e">>,
     <<"V", "a", "r", "i", "o", "u", "s", " ", "A", "r", "t", "i", "s", "t", "s">>,
     <<"T", "o", "p", "i", "c">>,
     <<>>}
VideoTitles ==
    {<<"C", "o", "o", "l", " ", "A", "r", "t", "i", "s", "t", " ", "-", " ", "S", "o", "n", "g", " ", "N", "a", "m", "e">>,
     <<"R", "e", "l", "e", "a", "s", "e", " ", "-", " ", "S", "o", "n", "g">>,
     <<"S", "o", "n", "g">>,
     <<"S", "o", "n", "g", " ", "b", "y", " ", "A", "d", "e", "l", "e">>,
     <<"1", "2", " ", "-", " ", "S", "o", "n", "g">>,
     <<"A", "d", "e", "l", "e", " ", "|", " ", "H", "e", "l", "l", "o">>,
     <<"L", "i", "v", "e", ":", " ", "A", "d", "e", "l", "e">>,
     <<>>}

\* What the cache holds for a video of that channel and title: the artist
\* fetchFromYouTubeAPI gave it, or for an entry of an older version the
\* cleaned channel title.
CachedArtists(channelTitle, videoTitle) ==
    {itemArtist(channelTitle, videoTitle), cleanArtistName(channelTitle)}

RInit ==
    /\ artistPc \in {"item", "cached"}
    /\ itemChannelTitle \in ChannelTitles
    /\ itemTitle \in VideoTitles
    /\ songArtist \in IF artistPc = "cached"
                      THEN CachedArtists(itemChannelTitle, itemTitle)
                      ELSE {<<>>}
    /\ artistResult = <<>>

\* fetchFromYouTubeAPI, lines 107-118: the artist of a provider item.
ItemArtist ==
    /\ artistPc = "item"
    /\ artistResult' = itemArtist(itemChannelTitle, itemTitle)
    /\ artistPc' = "item-done"
    /\ UNCHANGED <<itemChannelTitle, itemTitle, songArtist, exceptR>>

\* lookupSongs, lines 239-247: the artist of a cached song.
CachedArtist ==
    /\ artistPc = "cached"
    /\ artistResult' = artistOrExtracted(songArtist, itemTitle)
    /\ artistPc' = "cached-done"
    /\ UNCHANGED <<itemChannelTitle, itemTitle, songArtist, exceptR>>

RNext ==
    \/ ItemArtist
    \/ CachedArtist

InitArtist ==
    /\ PInit /\ LIdle /\ YIdle /\ TIdle /\ GIdle /\ HIdle /\ AIdle /\ EIdle
    /\ RInit /\ KIdle /\ UIdle
SpecArtist == InitArtist /\ [][RNext]_vars


(***************************************************************************)
(* The yields of the two batch loops (parser.ts lines 359-392,             *)
(* stats-calculator.ts lines 285-411): what a pass does to the records is  *)
(* in ParserBatch and CalculateStatsBatch; here are the passes and the     *)
(* calls of yieldToBrowser between them.                                   *)
(***************************************************************************)
\* The lengths tried: none, less than a batch, and around one, two, three
\* and five batches of either size.
LoopLengths ==
    {0, 1, 500, 501, 1000, 1001, 1501, 2000, 2001, 2501, 4000, 4001, 6001,
     8001}

\* if (capability === "low" || i % (batchSize * 2) === 0) (parser.ts line
\* 389, stats-calculator.ts line 408)
yieldsAfter(cap, i, size) == cap = "low" \/ i % (size * 2) = 0

KInit ==
    /\ loopOf \in {"parser", "stats"}
    /\ loopLength \in LoopLengths
    /\ loopCapability \in {"high", "low"}
    /\ loopI = 0
    /\ unyielded = 0
    /\ yields = 0

\* One pass of a batch loop with batches of `size`: the records i .. batchEnd
\* are taken, then control is yielded or not.
LoopPass(size) ==
    /\ loopI < loopLength
    /\ LET batchEnd == Min(loopI + size, loopLength)
           yielding == yieldsAfter(loopCapability, loopI, size)
       IN /\ unyielded' = IF yielding THEN 0 ELSE unyielded + (batchEnd - loopI)
          /\ yields' = IF yielding THEN yields + 1 ELSE yields
    /\ loopI' = loopI + size
    /\ UNCHANGED <<loopOf, loopLength, loopCapability, exceptK>>

\* parseGoogleTakeoutFile, lines 359-392
ParserPass ==
    /\ loopOf = "parser"
    /\ LoopPass(getBatchSize(loopCapability))

\* calculateStats, lines 285-411
StatsPass ==
    /\ loopOf = "stats"
    /\ LoopPass(statsBatchSize(loopCapability))

KNext ==
    \/ ParserPass
    \/ StatsPass

InitYield ==
    /\ PInit /\ LIdle /\ YIdle /\ TIdle /\ GIdle /\ HIdle /\ AIdle /\ EIdle
    /\ RIdle /\ KInit /\ UIdle
SpecYield == InitYield /\ [][KNext]_vars


(***************************************************************************)
(* The saves of the Statistics: POST /api/stats with what calculateStats   *)
(* returned (part_004 lines 53-103), the save of generateUserStats         *)
(* (part_013 lines 424-462), and the deletion of the upload endpoint.      *)
(***************************************************************************)
\* Saves and deletions followed.
MaxSaves == 3

\* Model.findOneAndUpdate({ userId }, update, { upsert: true }) with an update
\* of plain fields: the fields of the update are set on the first document
\* found, which keeps its other fields; without a document the update is
\* inserted (user-stats.ts lines 14-22, part_011 lines 54-62).
findOneAndUpdate(docs, update) ==
    IF docs = <<>> THEN <<update>>
    ELSE [docs EXCEPT ![1] = update @@ docs[1]]

\* What calculateStats returns (stats-calculator.ts lines 636-667) once
\* JSON.stringify has dropped its undefined fields, for a library of n songs
\* whose one song with a release year is of `year`, 0 for a library without
\* such a song.
clientStatsOf(n, year) ==
    IF year = 0
    THEN [totalSongs |-> n, totalArtists |-> n, totalListens |-> n,
          songsWithYearCount |-> 0]
    ELSE [totalSongs |-> n, totalArtists |-> n, totalListens |-> n,
          songsWithYearCount |-> 1, listeningAge |-> CURRENT_YEAR - year,
          averageReleaseYear |-> year, oldestSong |-> year,
          newestSong |-> year]

\* What generateUserStats passes to updateUserStats (part_013 lines
\* 425-461): no field of the song age.
serverStatsOf(n) ==
    [totalSongs |-> n, totalArtists |-> n, totalListens |-> n]

\* A body without totalSongs.
InvalidBody == [totalArtists |-> 1, totalListens |-> 1]

Libraries == {<<n, year>> : n \in 1..2, year \in {0, 1985, 1999}}

\* The update updateUserStats builds: { userId, ...stats, lastUpdated }.
statsUpdate(stats) ==
    [userId |-> "user", lastUpdated |-> saveCount + 1] @@ stats

\* updateUserStats (user-stats.ts lines 8-23, part_011 lines 48-63)
saveUserStats(stats, response) ==
    /\ userStatsDocs' = findOneAndUpdate(userStatsDocs, statsUpdate(stats))
    /\ lastSave' = [status |-> response, update |-> statsUpdate(stats),
                    existing |-> userStatsDocs # <<>>]

\* POST /api/stats (part_004 lines 53-103)
PostStats ==
    /\ saveCount < MaxSaves
    /\ saveCount' = saveCount + 1
    /\ \E signedIn \in BOOLEAN,
          body \in {clientStatsOf(l[1], l[2]) : l \in Libraries}
                     \cup {InvalidBody} :
         IF ~signedIn
         THEN /\ lastSave' = [status |-> "401"]
              /\ UNCHANGED userStatsDocs
         ELSE IF "totalSongs" \notin DOMAIN body
         THEN /\ lastSave' = [status |-> "400"]
              /\ UNCHANGED userStatsDocs
         ELSE saveUserStats(body, "200")
    /\ UNCHANGED exceptU

\* generateUserStats, step calculate-stats (part_013 lines 424-462)
GenerateUserStats ==
    /\ saveCount < MaxSaves
    /\ saveCount' = saveCount + 1
    /\ \E n \in 1..2 : saveUserStats(serverStatsOf(n), "stats-updated")
    /\ UNCHANGED exceptU

\* cleanupUserData of the upload endpoint: UserStats.deleteOne({ userId })
\* (upload/route.ts line 32)
DeleteUserStats ==
    /\ saveCount < MaxSaves
    /\ saveCount' = saveCount + 1
    /\ userStatsDocs' = IF userStatsDocs = <<>> THEN <<>> ELSE Tail(userStatsDocs)
    /\ lastSave' = [status |-> "deleted"]
    /\ UNCHANGED exceptU

UNext ==
    \/ PostStats
    \/ GenerateUserStats
    \/ DeleteUserStats

InitSave ==
    /\ PInit /\ LIdle /\ YIdle /\ TIdle /\ GIdle /\ HIdle /\ AIdle /\ EIdle
    /\ RIdle /\ KIdle /\ UIdle
SpecSave == InitSave /\ [][UNext]_vars


ENext ==
    \/ BatchEstimateDurations
    \/ UpdateSongWithAPIData

\* Calls of batchEstimateDurations, and enrichments between them, from an
\* empty cache.
InitEstimate == SIdle /\ TIdle /\ GIdle /\ HIdle /\ AIdle /\ EIdle
SpecEstimate == InitEstimate /\ [][ENext]_vars

\* The plays of the calls that set the batch loop against one pass: none,
\* three, and 500 and 501.
ChunkedEntries == {<<>>, ExamplePlays} \cup LongFamilies

AChunked ==
    /\ AInit
    /\ statPc = "grouping"
    /\ statEntries \in ChunkedEntries

\* One call of parseGoogleTakeoutFile or one call of calculateStats, each on
\* a constrained and on a capable device; a payload of up to MaxRecords
\* records, one batch on any device, is parsed on a capable one.
InitChunks ==
    /\ SIdle /\ TIdle /\ HIdle /\ EIdle
    /\ \/ /\ GInit /\ AIdle
          /\ Len(fileContent.data) <= MaxRecords => capability = "high"
       \/ GIdle /\ AChunked
SpecChunks ==
    InitChunks
      /\ [][GNext \/ CalculateStatsBatch \/ CalculateStatsReturn]_vars

(***************************************************************************)
(* Claims about the upload endpoint and the pipeline.                      *)
(***************************************************************************)
\* Run h of processMusicHistory has ended: it returned, or a step ran out of attempts.
RunEnded(h) ==
    runPc[h] \in {"returned-success", "returned-no-entries", "failed-run"}

\* Run h of processMusicHistory returned (no step of it ran out of attempts).
RunReturned(h) == runPc[h] \in {"returned-success", "returned-no-entries"}

\* Nothing is left to run: no request in the endpoint, every run returned and
\* no statistics job is queued.
AllRunsFinished ==
    /\ uploadPc = "idle"
    /\ \A h \in 1..uploads : RunReturned(h) /\ statsJob[h] # "queued"

\* No upload later than h has begun, so no cleanup has touched the data of h.
Newest(h) == uploads = h /\ uploadPc = "idle"

\* C1: once a second upload was accepted (its cleanup having run without an
\* error), then after all runs finish the stored Statistics are not those of
\* the earlier upload and no history entry of the earlier upload remains.
C1_NoStaleStatistics ==
    (uploads = 2 /\ cleanupOk /\ AllRunsFinished) =>
        /\ UserStats # NoDoc => UserStats.historyId = 2
        /\ EntryCount(HistoryEntry, 1) = 0

\* C2: when the job completes, each parsed play event is stored exactly once
\* and the number of stored entries equals the number of parsed events,
\* whatever steps were executed again on the way.
C2_EachEventStoredOnce ==
    \A h \in HistoryIds :
        (runPc[h] = "returned-success" /\ Newest(h)) =>
            /\ EntryCount(HistoryEntry, h) = Value(parseResult[h])
            /\ \A k \in 1..Value(parseResult[h]) :
                 CopiesIn(<<h, k>>, HistoryEntry) = 1

\* C3: a run one of whose stages failed on every attempt leaves its
\* MusicHistory record with status 'failed' and a recorded error message,
\* and the entries of the batches completed before it are still stored.
C3_ExhaustedStageMarksFailed ==
    \A h \in HistoryIds :
        (runPc[h] = "failed-run" /\ Newest(h)) =>
            /\ MusicHistory[h].status = "failed"
            /\ MusicHistory[h].errorMessage # None
            /\ EntryCount(HistoryEntry, h) >= batchI[h] * processingBatchSize

\* Everything stored for the user but what belongs to history `keep` is gone.
PriorDataDeleted(keep) ==
    /\ \A h \in HistoryIds \ {keep} : MusicHistory[h] = NoDoc
    /\ \A e \in DOMAIN HistoryEntry : e[1] = keep
    /\ UserStats = NoDoc

\* C4: in every execution of the upload endpoint, at the step that creates the
\* new history record and at the step that sends 'process/music-history', all
\* of the user's previously stored history entries, history records and
\* Statistics have been deleted.
C4_CleanupBeforeCreateAndSend ==
    [][ /\ (uploadPc = "cleaned" /\ uploadPc' = "created") => PriorDataDeleted(0)
        /\ (uploadPc = "created" /\ uploadPc' = "idle") => PriorDataDeleted(uploads)
      ]_vars

(***************************************************************************)
(* Claims about lookupSongs and YouTubeService.                            *)
(***************************************************************************)
\* The scheme and the host of an origin "scheme://host[:port]".
schemeOf(o) == split(o, SchemeSep)[1]
hostOf(o) ==
    IF Len(split(o, SchemeSep)) >= 2
    THEN split(split(o, SchemeSep)[2], <<":">>)[1] ELSE <<>>

\* The Origin header names the scheme and the host of the allowed origin
\* (the port is left out of the comparison, as the code leaves it out).
MatchesAllowedOrigin(o) ==
    /\ schemeOf(o) = schemeOf(BETTER_AUTH_URL)
    /\ hostOf(o) = hostOf(BETTER_AUTH_URL)

\* The call got past the origin check, the session check and the input check.
Admitted == cacheReads > 0

\* C5: a call of lookupSongs without a session, or with an Origin header that
\* does not match the allowed origin, returns an authorization error and has
\* read no cache, sent no provider request and upserted nothing.
C5_RejectedBeforeCacheAndProvider ==
    (lookupPc # "called"
       /\ (~session \/ (origin # <<>> /\ ~MatchesAllowedOrigin(origin)))) =>
        /\ lookupPc = "returned"
        /\ ~lookupResult.success
        /\ lookupResult.error \in {"Forbidden", "Unauthorized"}
        /\ cacheReads = 0
        /\ providerLog = <<>>
        /\ upsertLog = <<>>

\* The videos requests of the call, in order.
videoRequests == SelectSeq(providerLog, LAMBDA r : r.kind = "videos")

\* The ids of the requests of `log`, one after the other.
RECURSIVE requestedIds(_)
requestedIds(log) ==
    IF log = <<>> THEN <<>> ELSE Head(log).ids \o requestedIds(Tail(log))

C7_QuotaSignalEndsBatches ==
    /\ \A k \in 1..Len(providerLog) :
         providerLog[k].outcome = "403" => k = Len(providerLog)
    /\ (lookupPc = "returned" /\ Admitted) =>
         DOMAIN cachedMap \cup DOMAIN results \subseteq DOMAIN lookupResult.data

\* C8: the statistics of a successful call add up, cached and fetched count
\* disjoint sets of ids of the returned mapping, and notFound is the
\* non-negative number of requested ids absent from the mapping.
C8_StatsPartitionRequest ==
    (lookupPc = "returned" /\ lookupResult.success) =>
        LET stats == lookupResult.stats
            data == lookupResult.data
        IN /\ stats.requested = stats.cached + stats.fetched + stats.notFound
           /\ DOMAIN cachedMap \cap DOMAIN results = {}
           /\ DOMAIN cachedMap \cup DOMAIN results \subseteq DOMAIN data
           /\ stats.notFound >= 0
           /\ stats.notFound =
                Cardinality({k \in 1..Len(limitedIds) : limitedIds[k] \notin DOMAIN data})

\* C9: between two consecutive batch requests of one call of
\* batchGetVideoMetadataBulk there is a delay, whatever the earlier answered.
C9_DelayBetweenRequests ==
    \A k \in 1..(Len(ytLog) - 1) :
        ~(ytLog[k].kind = "request" /\ ytLog[k + 1].kind = "request")

\* C10: every song lookupSongs returns, and every song it upserts into the
\* cache, has a duration greater than 0.
C10_PositiveDuration ==
    /\ (lookupPc = "returned" /\ lookupResult.success) =>
         \A id \in DOMAIN lookupResult.data : lookupResult.data[id].duration > 0
    /\ \A k \in 1..Len(upsertLog) :
         upsertLog[k].ok => upsertLog[k].song.duration > 0

(***************************************************************************)
(* Claims about the parsers, the aggregation and the estimator.            *)
(***************************************************************************)
\* The qualification rule: an object with a non-empty title and time, the
\* YouTube Music header, no exclusion phrase and a title of 3 to 200 characters.
Qualifies(rec) ==
    /\ rec.json = "object"
    /\ rec.titleType = "string"
    /\ rec.title # <<>>
    /\ rec.time # ""
    /\ rec.header = "YouTube Music"
    /\ \A k \in 1..Len(excludePatterns) :
         IndexOf(toLowerCase(rec.title), excludePatterns[k]) = 0
    /\ Len(rec.title) \in 3..200

\* C11: the parser emits only records that pass the qualification rule, at
\* most one event per record and in input order; a record that does not
\* qualify raises no error; the totalListens computed from the emitted events
\* is their number.
C11_OnlyQualifyingEmitted ==
    /\ \A k \in 1..Len(parserEntries) :
         Qualifies(fileContent.data[parserEntries[k].record])
    /\ \A k \in 1..Len(parserEntries) : \A j \in 1..(k - 1) :
         parserEntries[j].record < parserEntries[k].record
    /\ fileContent.kind = "array" => parserPc # "threw"
    /\ (parserPc = "returned" /\ parserResult.error = None) =>
         totalListens(parserResult.entries) = Len(parserEntries)

\* The records of the payload the loop has gone through that threw.
ThrowingRecords ==
    {k \in 1..takeoutI : isYouTubeMusicEntry(jsonContent.data[k]) = "throw"}

\* The records gone through that qualify but carry a date that does not parse.
UnparsableRecords ==
    {k \in 1..takeoutI :
        /\ isYouTubeMusicEntry(jsonContent.data[k]) = "true"
        /\ getTime(jsonContent.data[k].time) = NaN}

\* The error tally: the messages of records in takeoutErrors.
Tally ==
    Cardinality({k \in 1..Len(takeoutErrors) :
                    takeoutErrors[k].kind = "Error processing entry"})

TerminalNotes ==
    {k \in 1..Len(takeoutErrors) :
        takeoutErrors[k].kind = "Too many errors encountered, stopping parse"}

\* C12: a record with a date that does not parse, or one that throws, is
\* dropped and counted in the error tally; the parse does not stop before the
\* end of the payload while the tally has not passed 100; a record that takes
\* the tally past 100 stops it at once, with the events so far and exactly
\* one terminal note.
C12_BadRecordsCountedUpToCap ==
    /\ \A k \in ThrowingRecords \cup UnparsableRecords :
         /\ \A e \in 1..Len(takeoutEntries) : takeoutEntries[e].record # k
         /\ \E e \in 1..Len(takeoutErrors) :
              /\ takeoutErrors[e].kind = "Error processing entry"
              /\ takeoutErrors[e].entry = k - 1
    /\ (takeoutPc \in {"complete", "returned"} /\ takeoutI < Len(jsonContent.data))
         => Tally > MAX_ERRORS
    /\ Tally <= MAX_ERRORS + 1
    /\ Cardinality(TerminalNotes) = IF Tally > MAX_ERRORS THEN 1 ELSE 0
    /\ (takeoutPc = "returned" /\ jsonContent.kind = "array")
         => takeoutResult.entries = takeoutEntries

\* C13: a payload that is not valid JSON, or not an array, ends the parse in
\* a failure result with no events (empty entries, totalEntries 0,
\* musicEntries 0, an error message); nothing is raised to the caller.
C13_MalformedPayloadIsFailureResult ==
    (fileContent.kind # "array" /\ parserPc # "called") =>
        /\ parserPc = "returned"
        /\ parserResult.entries = <<>>
        /\ parserResult.totalEntries = 0
        /\ parserResult.musicEntries = 0
        /\ parserResult.error # None

\* C14: title cleanup is idempotent: cleaning a cleaned title changes nothing,
\* whatever trailing annotations the raw title stacks and in whatever order.
C14_CleanTitleIdempotent ==
    Len(cleaned) = 2 => cleaned[2] = cleaned[1]

\* The artist and the seconds calculateStats resolves for a play of the call.
ResolvedArtist(e) == getArtist(e, statMetadata)
EffectiveDuration(e) == getDuration(e, statMetadata)

\* The normalized 'artist - title' key of a play.
NormalizedKey(e) ==
    toLowerCase(ResolvedArtist(e)) \o <<" ", "-", " ">> \o toLowerCase(e.title)

\* The sum of the effective durations of statEntries[lo+1 .. hi].
RECURSIVE DurationSum(_, _)
DurationSum(lo, hi) ==
    IF hi <= lo THEN 0
    ELSE IF hi = lo + 1 THEN EffectiveDuration(statEntries[hi])
    ELSE DurationSum(lo, (lo + hi) \div 2) + DurationSum((lo + hi) \div 2, hi)

\* C15: what calculateStats returns has totalListens equal to the number of
\* plays, totalSongs to the number of distinct normalized 'artist - title'
\* keys, totalArtists to the number of distinct lowercase artist names and
\* totalPlaytime to the sum of the effective durations of the plays.
C15_TotalsCountPlaysKeysArtistsSeconds ==
    statPc = "returned" =>
        /\ clientStats.totalListens = Len(statEntries)
        /\ clientStats.totalSongs =
              Cardinality({NormalizedKey(e) : e \in Range(statEntries)})
        /\ clientStats.totalArtists =
              Cardinality({toLowerCase(ResolvedArtist(e)) :
                              e \in Range(statEntries)})
        /\ clientStats.totalPlaytime = DurationSum(0, Len(statEntries))

\* Three plays of one track resolved to 200 seconds: 3 listens, 1 song, 600.
C15_Witness ==
    /\ statPc = "returned"
    /\ statEntries = ExamplePlays
    /\ songMetaOf(statMetadata, statEntries[1]).duration = 200
    /\ clientStats.totalListens = 3
    /\ clientStats.totalSongs = 1
    /\ clientStats.totalPlaytime = 600

\* A top list against the plays it ranks.  itemKeys[i] is the key of list[i],
\* playKeys[k] the key of play k, excluded the keys the list leaves out by
\* design: at most 10 items, each with its number of plays, by plays
\* descending, equal counts in the order first met, and nothing left out that
\* was played more than a listed item.
PlaysOf(playKeys, key) ==
    Cardinality({k \in 1..Len(playKeys) : playKeys[k] = key})

FirstPlayOf(playKeys, key) ==
    CHOOSE k \in 1..Len(playKeys) :
        /\ playKeys[k] = key
        /\ \A j \in 1..(k - 1) : playKeys[j] # key

IsTopList(list, itemKeys, playKeys, excluded) ==
    /\ Len(list) <= 10
    /\ \A i \in 1..Len(list) :
         /\ itemKeys[i] \in Range(playKeys) \ excluded
         /\ list[i].playCount = PlaysOf(playKeys, itemKeys[i])
    /\ \A i, j \in 1..Len(list) :
         i < j =>
           /\ list[i].playCount >= list[j].playCount
           /\ list[i].playCount = list[j].playCount =>
                FirstPlayOf(playKeys, itemKeys[i]) < FirstPlayOf(playKeys, itemKeys[j])
    /\ \A key \in (Range(playKeys) \ excluded) \ Range(itemKeys) :
         \A i \in 1..Len(list) : PlaysOf(playKeys, key) <= list[i].playCount

ReleaseName == <<"r", "e", "l", "e", "a", "s", "e">>

\* The lists calculateStats returns.
ClientListsRanked ==
    LET songKeys == [k \in 1..Len(statEntries) |-> NormalizedKey(statEntries[k])]
        artistKeys ==
            [k \in 1..Len(statEntries) |-> toLowerCase(ResolvedArtist(statEntries[k]))]
        songs == clientStats.topSongs
        artists == clientStats.topArtists
    IN /\ IsTopList(songs,
                    [i \in 1..Len(songs) |->
                        toLowerCase(songs[i].artist) \o <<" ", "-", " ">>
                          \o toLowerCase(songs[i].title)],
                    songKeys, {})
       /\ IsTopList(artists,
                    [i \in 1..Len(artists) |-> toLowerCase(artists[i].name)],
                    artistKeys, {ReleaseName})
       /\ clientStats.totalArtists = Cardinality(Range(artistKeys))
       /\ clientStats.totalListens = Len(statEntries)

\* The lists the step calculate-stats stores.
ServerListsRanked ==
    LET songKeys ==
            [k \in 1..Len(statEntries) |->
                createSongKey(statEntries[k].artist, statEntries[k].title)]
        artistKeys == [k \in 1..Len(statEntries) |-> statEntries[k].artist]
        songs == serverStats.topSongs
        artists == serverStats.topArtists
    IN /\ IsTopList(songs, [i \in 1..Len(songs) |-> songs[i].key], songKeys, {})
       /\ IsTopList(artists, [i \in 1..Len(artists) |-> artists[i].name],
                    artistKeys,
                    {a \in Range(artistKeys) : toLowerCase(a) = ReleaseName})
       /\ serverStats.totalListens = Len(statEntries)

\* C16: topSongs and topArtists hold at most 10 items in descending order of
\* plays, equal counts in the order first met in the input, nothing left out
\* that was played more than a listed item; an artist named 'Release' is left
\* out of topArtists and still counted in the totals.
C16_TopListsRanked ==
    /\ statPc = "returned" => ClientListsRanked
    /\ statPc = "stats-updated" => ServerListsRanked

\* The times of the plays, and for a time the start of its session: the
\* earliest of the times from which the plays up to it are unbroken.
PlayedTimes == {statEntries[k].playedAt : k \in 1..Len(statEntries)}

NextTime(times, t) ==
    CHOOSE u \in times : u > t /\ \A v \in times : v > t => u <= v

\* Every play from time s up to time t comes at most an hour after the one
\* before.
Unbroken(times, s, t) ==
    \A a \in times : (s <= a /\ a < t) => NextTime(times, a) - a <= 3600 * 1000

SessionStart(times, t) ==
    CHOOSE s \in times :
        /\ s <= t
        /\ Unbroken(times, s, t)
        /\ \A r \in times : (r <= t /\ Unbroken(times, r, t)) => s <= r

\* The seconds of the plays among statEntries[lo+1 .. hi] played at one of
\* the times of a session.
RECURSIVE SessionSum(_, _, _)
SessionSum(run, lo, hi) ==
    IF hi <= lo THEN 0
    ELSE IF hi = lo + 1
    THEN (IF statEntries[hi].playedAt \in run
          THEN EffectiveDuration(statEntries[hi]) ELSE 0)
    ELSE SessionSum(run, lo, (lo + hi) \div 2)
         + SessionSum(run, (lo + hi) \div 2, hi)

LongestRun ==
    LET times == PlayedTimes
        startOf == {<<t, SessionStart(times, t)>> : t \in times}
        sessions == {{p[1] : p \in {q \in startOf : q[2] = s}} : s \in times} \ {{}}
        sums == {SessionSum(run, 0, Len(statEntries)) : run \in sessions}
    IN IF sums = {} THEN 0 ELSE CHOOSE m \in sums : \A x \in sums : x <= m

\* C17: longestSession is the largest sum of effective durations over the
\* maximal runs of plays, in order of time, whose consecutive gaps are at most
\* 3600 seconds, the last run included, whatever the order the plays came in.
C17_LongestSessionIsLongestRun ==
    /\ statPc = "returned" =>
         /\ clientStats.longestSession = LongestRun
         /\ clientLongestSession(reverse(statEntries), statMetadata) = LongestRun
    /\ statPc = "stats-updated" => serverStats.longestSession = LongestRun

\* The three plays of 200 seconds: the first two are one session of 400, the
\* third starts another.
C17_Witness ==
    /\ statPc = "returned"
    /\ statEntries = ExamplePlays
    /\ songMetaOf(statMetadata, statEntries[1]).duration = 200
    /\ clientStats.longestSession = 400

RECURSIVE PercentageSum(_)
PercentageSum(distribution) ==
    IF distribution = <<>> THEN 0
    ELSE Head(distribution).percentage + PercentageSum(Tail(distribution))

\* C18: when some play has a release year, the percentages of the decade
\* distribution calculateStats returns add up to 99, 100 or 101.
C18_DecadePercentagesSumTo100 ==
    (statPc = "returned"
       /\ \E k \in 1..Len(statEntries) :
             getReleaseYear(statEntries[k], statMetadata) # 0)
      => /\ PercentageSum(clientStats.decadeDistribution) >= 99
         /\ PercentageSum(clientStats.decadeDistribution) <= 101

\* What calculateStats returns from the maps and the sum of one pass over all
\* the plays.
StatsOfOnePass ==
    LET acc == groupRange([songMap |-> <<>>, artistMap |-> <<>>,
                           totalPlaytime |-> 0, decadeCountMap |-> <<>>,
                           dailyMap |-> <<>>, songYearMap |-> <<>>],
                          statEntries, statMetadata, 0, Len(statEntries))
    IN [totalSongs |-> Len(acc.songMap),
        totalArtists |-> Len(acc.artistMap),
        totalPlaytime |-> acc.totalPlaytime,
        totalListens |-> Len(statEntries),
        longestSession |-> clientLongestSession(statEntries, statMetadata),
        topSongs |-> topSongsOf(acc.songMap),
        topArtists |-> topArtistsOf(acc.artistMap),
        decadeDistribution |-> decadeDistributionOf(acc.decadeCountMap),
        oldestSong |-> songAgeOf(acc.songYearMap).oldestSong,
        newestSong |-> songAgeOf(acc.songYearMap).newestSong]

\* C19: with batches of 500 and of 2000 alike, parseGoogleTakeoutFile returns
\* the events and the count of one pass over the whole payload, in the same
\* order, and calculateStats the statistics of one pass over all the plays.
C19_ChunkSizeChangesNothing ==
    /\ parserPc = "returned" /\ fileContent.kind = "array" =>
         LET whole == parseRange(fileContent.data, 0, Len(fileContent.data))
         IN /\ parserResult.entries = whole.entries
            /\ parserResult.musicEntries = whole.musicEntries
            /\ parserResult.totalEntries = Len(fileContent.data)
    /\ statPc = "returned" => clientStats = StatsOfOnePass

\* A payload that took several batches and gave events.
C19_Witness ==
    /\ parserPc = "returned"
    /\ Len(fileContent.data) > getBatchSize(capability)
    /\ Len(parserResult.entries) > getBatchSize(capability)

\* C20: two estimates of songs with the same title, artist and genre hints
\* (and the same video id, answered alike by the provider) are the same
\* duration, method and confidence, whatever the cache held and whatever was
\* estimated or enriched in between or beside them.
C20_EstimationIsPure ==
    \A a, b \in estimateLog :
        (/\ a.title = b.title /\ a.artist = b.artist /\ a.genres = b.genres
         /\ a.youtubeId = b.youtubeId /\ a.answered = b.answered)
          => a.estimate = b.estimate

(***************************************************************************)
(* Claims about the status record of a run.                                *)
(***************************************************************************)
\* The MusicHistory record of run h as a poll of the status route reads it.
Observed(h) == MusicHistory[h]

\* C26: whenever the record of a run reads status 'completed' (progress
\* 100), the Statistics computed from that upload are stored for the user.
C26_CompletedMeansStatisticsStored ==
    \A h \in HistoryIds :
        (Observed(h) # NoDoc /\ Observed(h).status = "completed" /\ Newest(h)) =>
            /\ Observed(h).progress = 100
            /\ UserStats # NoDoc
            /\ UserStats.historyId = h

\* The moves of the status the claim allows.
StatusMoves ==
    {<<"pending", "processing">>, <<"processing", "completed">>,
     <<"processing", "failed">>}

\* C28: the status of a record moves only pending -> processing -> completed
\* or failed; a record that reads 'completed' or 'failed' keeps that status
\* for as long as it exists, whatever steps are run again.
C28_StatusMovesForwardOnly ==
    [][\A h \in HistoryIds :
          (/\ MusicHistory[h] # NoDoc
           /\ MusicHistory'[h] # NoDoc
           /\ MusicHistory'[h].status # MusicHistory[h].status)
            => <<MusicHistory[h].status, MusicHistory'[h].status>> \in StatusMoves
      ]_vars

\* C29: the progress of a record is within 0..100 and is 100 exactly when the
\* status is 'completed', processedEntries is at most the number of parsed
\* events, and no step, run once or again, lowers either of the two.
C29_ProgressNeverGoesBack ==
    /\ [](\A h \in HistoryIds :
            MusicHistory[h] # NoDoc =>
               /\ MusicHistory[h].progress \in 0..100
               /\ (MusicHistory[h].progress = 100)
                    <=> (MusicHistory[h].status = "completed")
               /\ MusicHistory[h].processedEntries <= MusicHistory[h].fileEntries)
    /\ [][\A h \in HistoryIds :
            (MusicHistory[h] # NoDoc /\ MusicHistory'[h] # NoDoc) =>
               /\ MusicHistory'[h].progress >= MusicHistory[h].progress
               /\ MusicHistory'[h].processedEntries
                     >= MusicHistory[h].processedEntries
        ]_vars

(***************************************************************************)
(* Claims about the estimates and the resolver.                            *)
(***************************************************************************)
\* The entry of the title-pattern table a title triggers, if any.
Triggered(songTitle) == estimateFromTitlePatterns(songTitle).confidence > 0

\* C23: an estimate that comes from neither the cache nor the provider is
\* the table entry of the trigger its title contains, with method
\* title-pattern ('Live' gives 285 s at 0.7); without a trigger it is the
\* genre tier's answer, which without hints or with an unmatched genre is
\* 210 s at confidence 0.5; the global average at 0.4 is given only when
\* neither tier answers.
C23_FirstMatchingTierAnswers ==
    \A e \in estimateLog :
        e.step = 3 =>
            /\ Triggered(e.title) =>
                  e.estimate = estimateFromTitlePatterns(e.title)
            /\ e.title = <<"L", "i", "v", "e">> =>
                  e.estimate = estimateOf(285, "title-pattern", 70)
            /\ ~Triggered(e.title) => e.estimate = estimateFromGenre(e.genres)
            /\ (~Triggered(e.title) /\ e.genres = <<>>) =>
                  e.estimate = estimateOf(210, "genre-default", 50)

\* The ids among `ids` that the cache read of the call did not find, or
\* found without a thumbnail.
RefetchCandidates(ids) ==
    {id \in Range(ids) :
        id \notin DOMAIN cachedMap \/ cachedMap[id].thumbnail = None}

\* No element of seq occurs in it twice.
NoRepeats(seq) == Cardinality(Range(seq)) = Len(seq)

\* The provider requests of the call sent exactly the ids of `wanted`, each
\* in one videos request, and no request carried more than 50 ids.
SentExactly(wanted) ==
    /\ Range(requestedIds(videoRequests)) = wanted
    /\ NoRepeats(requestedIds(videoRequests))
    /\ \A k \in 1..Len(providerLog) :
         Len(providerLog[k].ids) <= YOUTUBE_BATCH_SIZE

\* C24 as stated: in every resolution (a call that returns a mapping) the
\* ids sent to the provider are exactly the requested ids that are absent
\* from the cache or cached without a thumbnail, each in one videos request,
\* and every provider request carries at most 50 ids.
C24_CandidatesSentOnceInBatches ==
    (lookupPc = "returned" /\ lookupResult.success) =>
        SentExactly(RefetchCandidates(videoIds))

\* C24 amended: in a resolution made with a provider key configured, the ids
\* sent to the provider are exactly those of the first MAX_VIDEO_IDS
\* requested ids that are absent from the cache or cached without a
\* thumbnail, each in one videos request; every provider request (videos and
\* channels) carries at most 50 ids, and an id cached with a thumbnail is
\* never sent.  Without a key no request is made.
C24_CandidatesSentOnceWithKey ==
    /\ (lookupPc = "returned" /\ lookupResult.success /\ apiKey) =>
          SentExactly(RefetchCandidates(limitedIds))
    /\ ~apiKey => providerLog = <<>>
    /\ \A k \in 1..Len(providerLog) :
         /\ Len(providerLog[k].ids) <= YOUTUBE_BATCH_SIZE
         /\ providerLog[k].kind = "videos" =>
               \A id \in Range(providerLog[k].ids) :
                  id \in DOMAIN cachedMap => cachedMap[id].thumbnail = None

\* A returned call of more than one videos request that found one id cached
\* with a thumbnail, sent one cached without, and asked for channels.
C24_Witness ==
    /\ lookupPc = "returned"
    /\ lookupResult.success
    /\ Len(videoRequests) > 1
    /\ \E id \in DOMAIN cachedMap : cachedMap[id].thumbnail # None
    /\ \E id \in DOMAIN cachedMap :
         /\ cachedMap[id].thumbnail = None
         /\ id \in Range(requestedIds(videoRequests))
    /\ \E k \in 1..Len(providerLog) : providerLog[k].kind = "channels"

(***************************************************************************)
(* C22                                                                     *)
(***************************************************************************)
\* The artist of the item or of the cached song is set.
ArtistResolved == artistPc \in {"item-done", "cached-done"}

\* The artist taken from the title, "Unknown Artist" when there is none.
Rederived(videoTitle) ==
    IF extractArtistFromTitle(videoTitle) # <<>>
    THEN extractArtistFromTitle(videoTitle)
    ELSE UnknownArtist

TaggedYears == {songYearMap[k].year : k \in 1..Len(songYearMap)}

\* Some play has a release year.
SomeYear ==
    \E k \in 1..Len(statEntries) :
       getReleaseYear(statEntries[k], statMetadata) # 0

\* C27: when some song has a release year, calculateStats returns an
\* oldestSong and a newestSong, the year of the first is the least and the
\* year of the second the greatest of the years of the songs with a year,
\* and the first is not above the second.
C27_OldestAndNewestSong ==
    (statPc = "returned" /\ SomeYear) =>
        /\ clientStats.oldestSong # Unset
        /\ clientStats.newestSong # Unset
        /\ \A y \in TaggedYears : Value(clientStats.oldestSong).year <= y
        /\ \A y \in TaggedYears : Value(clientStats.newestSong).year >= y
        /\ Value(clientStats.oldestSong).year \in TaggedYears
        /\ Value(clientStats.newestSong).year \in TaggedYears
        /\ Value(clientStats.oldestSong).year
              <= Value(clientStats.newestSong).year

(***************************************************************************)
(* C30                                                                     *)
(***************************************************************************)
RECURSIVE SumPlayCount(_)
SumPlayCount(map) ==
    IF map = <<>> THEN 0 ELSE Head(map).playCount + SumPlayCount(Tail(map))

RECURSIVE SumTotalDuration(_)
SumTotalDuration(map) ==
    IF map = <<>> THEN 0
    ELSE Head(map).totalDuration + SumTotalDuration(Tail(map))

\* The artists whose song set holds the key.
ArtistsWith(songKey) ==
    {a \in 1..Len(artistMap) : songKey \in artistMap[a].songs}

\* The plays the batch loop has taken so far.
Processed == Min(statI, Len(statEntries))

\* C30: after each batch of the loop, the play counts of songMap, of
\* artistMap and of dailyMap each add up to the number of plays taken so
\* far, their totalDuration fields each add up to totalPlaytime, and every
\* song key is in the song set of exactly one artist.
C30_AccumulatorsAddUp ==
    statPc \in {"grouping", "returned"} =>
        /\ SumPlayCount(songMap) = Processed
        /\ SumPlayCount(artistMap) = Processed
        /\ SumPlayCount(dailyMap) = Processed
        /\ SumTotalDuration(songMap) = totalPlaytime
        /\ SumTotalDuration(artistMap) = totalPlaytime
        /\ SumTotalDuration(dailyMap) = totalPlaytime
        /\ \A k \in 1..Len(songMap) :
              Cardinality(ArtistsWith(songMap[k].key)) = 1

(***************************************************************************)
(* C25                                                                     *)
(***************************************************************************)
\* The batch size of the loop followed.
LoopBatchSize ==
    IF loopOf = "parser" THEN getBatchSize(loopCapability)
    ELSE statsBatchSize(loopCapability)

\* The records taken since the last yield and those of the pass to come.
NextRun == unyielded + (Min(loopI + LoopBatchSize, loopLength) - loopI)

\* C25: in both loops and on both kinds of device, control is yielded
\* between every two consecutive batches: a pass starts with no record
\* taken since the last yield, so no more than one batch of records is ever
\* taken without a yield.
C25_YieldBetweenBatches ==
    (loopOf # "none" /\ loopI < loopLength) =>
        /\ unyielded = 0
        /\ NextRun <= LoopBatchSize

(***************************************************************************)
(* C21                                                                     *)
(***************************************************************************)
\* The last request saved Statistics over stored ones.
SavedOverExisting ==
    /\ lastSave.status \in {"200", "stats-updated"}
    /\ lastSave.existing

\* C21: after a save for a user who has stored Statistics there is exactly
\* one Statistics document of the user and it is the newly computed
\* Statistics, field for field: it has no field the new ones do not carry.
C21_SaveReplacesStoredStatistics ==
    SavedOverExisting =>
        /\ Len(userStatsDocs) = 1
        /\ DOMAIN userStatsDocs[1] = DOMAIN lastSave.update
        /\ userStatsDocs[1] = lastSave.update

====
